---- MODULE Spec2Model ----
(***************************************************************************)
(* State-machine model of the near-staker vault (src/near-staker/src).     *)
(*                                                                         *)
(* One action per contract entry point or promise continuation.  A        *)
(* receipt that panics (require!, expect, unwrap, checked u128 arithmetic, *)
(* U256 division by zero) persists nothing: an entry point is enabled only *)
(* where none of its checks fails (the *_err operators give the failure a  *)
(* call meets), a continuation that panics only consumes its pending       *)
(* promise.  Amounts are yoctoNEAR in the source; the model counts *)
(* in a coarse unit so that ONE_NEAR and the price scale stay small.       *)
(* Remote pools are not modelled: what a pool answers to a continuation is *)
(* an input drawn from a small set (failure, or a balance).                *)
(***************************************************************************)
EXTENDS Integers, Naturals, Sequences, FiniteSets, TLC

(***************************************************************************)
(* Program constants                                                       *)
(***************************************************************************)
FEE_PRECISION == 10000
ONE_NEAR == 2
SHARE_PRICE_SCALING_FACTOR == 1000
NUM_EPOCHS_TO_UNLOCK == 4
StorageCost == 1

OK == "OK"
PANIC == "panic"
ERR_PAUSED == "Contract is paused"
ERR_LOCKED == "Contract is currently executing"
ERR_NOT_IN_SYNC == "Contract is not in sync"
ERR_USER_NOT_WHITELISTED == "User not whitelisted"
ERR_POOL_DOES_NOT_EXIST == "Delegation pool does not exist"
ERR_POOL_NOT_ENABLED == "Delegation pool not enabled"
ERR_POOL_ALREADY_EXISTS == "Delegation pool already exists"
ERR_STAKE_BELOW_MIN_DEPOSIT == "Deposit amount is below minimum deposit"
ERR_STORAGE_DEPOSIT_TOO_SMALL == "The attached deposit is less than the storage cost"
ERR_UNSTAKE_LOCKED == "Unstake is currently locked for this pool"
ERR_INVALID_UNSTAKE_AMOUNT == "Invalid unstake amount"
ERR_INSUFFICIENT_FUNDS_ON_POOL == "Insufficient funds on delegation pool"
ERR_INSUFFICIENT_TRUNEAR_BALANCE == "Insufficient TruNEAR balance"
ERR_INSUFFICIENT_NEAR_BALANCE == "Attached deposit too small"
ERR_INVALID_NONCE == "Invalid nonce"
ERR_SENDER_MUST_BE_RECEIVER == "Sender must have requested the unlock"
ERR_WITHDRAW_NOT_READY == "Withdraw not ready"
ERR_NO_ALLOCATIONS == "User has no allocations"
ERR_NO_ALLOCATIONS_TO_RECIPIENT == "User has no allocations to this recipient"
ERR_INVALID_RECIPIENT == "Cannot allocate to this recipient"
ERR_ALLOCATION_UNDER_ONE_NEAR == "Allocated amount must be at least 1 NEAR"
ERR_EXCESSIVE_DEALLOCATION == "Cannot deallocate more than is allocated"

(***************************************************************************)
(* Bounds of the model                                                     *)
(***************************************************************************)
MaxEpoch == 4
MaxAmount == 3
MaxTotal == 5
MaxNonce == 1
MaxPending == 2
MaxSupply == 6

(***************************************************************************)
(* Principals and pools                                                    *)
(***************************************************************************)
Treasury == "treasury"
Users == {"alice", "bob"}
AccountIds == Users \cup {Treasury}
Whitelisted == Users
PoolIds == {"pool1", "pool2"}
DefaultPool == "pool1"

Unregistered == -1
NoEpoch == -1
NoRequest == [user |-> "", near_amount |-> 0, pool_id |-> "", epoch |-> 0]
NoAllocation == [near_amount |-> 0, share_price_num |-> 0, share_price_denom |-> 0]
NoPool == [state |-> "NONE", total_staked |-> 0, total_unstaked |-> 0, last_unstake |-> NoEpoch]
NewPool == [state |-> "ENABLED", total_staked |-> 0, total_unstaked |-> 0, last_unstake |-> NoEpoch]

VARIABLES
    epoch,
    is_paused,
    is_locked,
    fee,
    distribution_fee,
    min_deposit,
    default_delegation_pool,
    delegation_pools,
    delegation_pools_list,
    total_staked,
    total_staked_last_updated_at,
    tax_exempt_stake,
    withdrawn_amount,
    unstake_nonce,
    unstake_requests,
    accounts,
    total_supply,
    allocations,
    allocators,
    pending,
    transfers,
    unlock_used

adminVars == <<is_paused, fee, distribution_fee, min_deposit, default_delegation_pool>>
poolVars == <<delegation_pools, delegation_pools_list>>
stakeVars == <<total_staked, total_staked_last_updated_at, tax_exempt_stake>>
requestVars == <<withdrawn_amount, unstake_nonce, unstake_requests>>
tokenVars == <<accounts, total_supply>>
vars == <<epoch, is_locked, adminVars, poolVars, stakeVars, requestVars, tokenVars,
          allocations, allocators, pending, transfers, unlock_used>>

(***************************************************************************)
(* math.rs                                                                 *)
(***************************************************************************)
Max(a, b) == IF a >= b THEN a ELSE b

saturating_sub(a, b) == Max(a - b, 0)

mul_div_with_rounding(x, y, denominator, rounding_up) ==
    LET result == (x * y) \div denominator
        remainder == (x * y) % denominator
    IN  IF rounding_up /\ remainder # 0 THEN result + 1 ELSE result

(***************************************************************************)
(* internal.rs, pure functions.  A price is the pair <<num, denom>>.       *)
(***************************************************************************)
internal_share_price_mut(totalStaked, sharesSupply, taxExemptStake, f) ==
    IF sharesSupply = 0
    THEN <<SHARE_PRICE_SCALING_FACTOR, 1>>
    ELSE LET taxable_amount == saturating_sub(totalStaked, taxExemptStake)
             taxed_total_staked == totalStaked * FEE_PRECISION + taxable_amount * f
         IN  <<taxed_total_staked * SHARE_PRICE_SCALING_FACTOR, sharesSupply * FEE_PRECISION>>

internal_share_price(totalStaked, sharesSupply, taxExemptStake, f) ==
    IF sharesSupply = 0
    THEN <<SHARE_PRICE_SCALING_FACTOR, 1>>
    ELSE LET taxable_amount == saturating_sub(totalStaked, taxExemptStake)
             taxed_total_staked == totalStaked * FEE_PRECISION - taxable_amount * f
         IN  <<taxed_total_staked * SHARE_PRICE_SCALING_FACTOR, sharesSupply * FEE_PRECISION>>

\* the divisor of convert_to_shares is zero: U256 division panics
convert_to_shares_panics(price) == price[1] \div SHARE_PRICE_SCALING_FACTOR = 0

\* mutant: always rounds up
convert_to_shares_mut(assets, price, rounding_up) ==
    mul_div_with_rounding(assets, price[2], price[1] \div SHARE_PRICE_SCALING_FACTOR, TRUE)

convert_to_shares(assets, price, rounding_up) ==
    mul_div_with_rounding(assets, price[2], price[1] \div SHARE_PRICE_SCALING_FACTOR, rounding_up)

convert_to_assets_mut(shares, price, rounding_up) ==
    mul_div_with_rounding(shares, price[1] \div SHARE_PRICE_SCALING_FACTOR, price[2], FALSE)
        + (IF rounding_up THEN 1 ELSE 0)

convert_to_assets(shares, price, rounding_up) ==
    mul_div_with_rounding(shares, price[1] \div SHARE_PRICE_SCALING_FACTOR, price[2], rounding_up)

share_price == internal_share_price(total_staked, total_supply, tax_exempt_stake, fee)

ft_balance_of(account_id) == Max(accounts[account_id], 0)

max_withdraw(account_id) == convert_to_assets(ft_balance_of(account_id), share_price, TRUE)

RECURSIVE SumOver(_, _)
SumOver(f, S) ==
    IF S = {} THEN 0
    ELSE LET x == CHOOSE y \in S : TRUE IN f[x] + SumOver(f, S \ {x})

(***************************************************************************)
(* internal.rs, checks                                                     *)
(***************************************************************************)
check_not_paused == ~is_paused

\* mutant: the lock is never looked at
check_not_locked_mut == TRUE

check_not_locked == ~is_locked

check_whitelisted(caller) == caller \in Whitelisted

\* mutant: the epoch of the last refresh is never looked at
check_contract_in_sync_mut == TRUE

check_contract_in_sync == total_staked_last_updated_at = epoch

\* check_pool: the error it raises, OK if none
check_pool_mut(pool_id) ==
    IF delegation_pools[pool_id].state = "NONE" THEN ERR_POOL_DOES_NOT_EXIST ELSE OK

check_pool(pool_id) ==
    IF delegation_pools[pool_id].state = "NONE" THEN ERR_POOL_DOES_NOT_EXIST
    ELSE IF delegation_pools[pool_id].state # "ENABLED" THEN ERR_POOL_NOT_ENABLED
    ELSE OK

(***************************************************************************)
(* internal_mint / internal_burn on the share token                        *)
(***************************************************************************)
\* mutant: total_supply grows but the recipient is not credited
mint_accounts_mut(accs, shares_amount, recipient) == accs

mint_accounts(accs, shares_amount, recipient) ==
    [accs EXCEPT ![recipient] = Max(accs[recipient], 0) + shares_amount]

burn_accounts(accs, shares_burned, user) ==
    [accs EXCEPT ![user] = Max(accs[user], 0) - shares_burned]

(***************************************************************************)
(* new                                                                     *)
(***************************************************************************)
Init ==
    /\ epoch = 0
    /\ is_paused = FALSE
    /\ is_locked = FALSE
    /\ fee = 0
    /\ distribution_fee = 0
    /\ min_deposit = ONE_NEAR
    /\ default_delegation_pool = DefaultPool
    /\ delegation_pools = [p \in PoolIds |-> IF p = DefaultPool THEN NewPool ELSE NoPool]
    /\ delegation_pools_list = <<DefaultPool>>
    /\ total_staked = 0
    /\ total_staked_last_updated_at = 0
    /\ tax_exempt_stake = 0
    /\ withdrawn_amount = 0
    /\ unstake_nonce = 0
    /\ unstake_requests = [n \in 1..MaxNonce |-> NoRequest]
    /\ accounts = [a \in AccountIds |-> IF a = Treasury THEN 0 ELSE Unregistered]
    /\ total_supply = 0
    /\ allocations = [pair \in Users \X AccountIds |-> NoAllocation]
    /\ allocators = {}
    /\ pending = <<>>
    /\ transfers = <<>>
    /\ unlock_used = FALSE


(***************************************************************************)
(* Pending continuations.  The arguments a continuation was scheduled with *)
(* are carried in one record shape; fields a kind does not use are zero.   *)
(***************************************************************************)
NoSnapshot == [balance |-> 0, total_supply |-> 0, total_staked |-> 0, tax_exempt_stake |-> 0,
               pool |-> NoPool, unstake_nonce |-> 0, unstake_requests |-> <<>>]

\* what an unstake touches, as it stands in the current state
Snapshot(caller, pool_id) ==
    [balance |-> ft_balance_of(caller), total_supply |-> total_supply,
     total_staked |-> total_staked, tax_exempt_stake |-> tax_exempt_stake,
     pool |-> delegation_pools[pool_id], unstake_nonce |-> unstake_nonce,
     unstake_requests |-> unstake_requests]

\* before/after: the snapshot taken when the entry point was called and when
\* it returned (kept for unstake, whose entry point mutates the state)
Continuation(kind, pool_id, caller, amount) ==
    [kind |-> kind, pool_id |-> pool_id, caller |-> caller, amount |-> amount,
     shares_amount |-> 0, withdraw_occurred |-> FALSE, attached_near |-> 0,
     unstake_epoch |-> 0, unstake_nonce |-> 0, request_amount |-> 0, npromises |-> 0,
     before |-> NoSnapshot, after |-> NoSnapshot]

RemoveAt(s, i) == SubSeq(s, 1, i - 1) \o SubSeq(s, i + 1, Len(s))

PendingOf(kind) == {i \in 1..Len(pending) : pending[i].kind = kind}

\* what a remote pool may report as a balance
RemoteBalances == {0, 3, 5}
\* a callback result is Err or a balance; a promise result is Failed, a payload
\* that does not parse, or a balance
Err == -1
Failed == -1
Unparsable == -2
CallResults == {Err} \cup RemoteBalances
RefreshResults == {Failed, Unparsable} \cup RemoteBalances

(***************************************************************************)
(* The host: any number of epochs may pass between two receipts.          *)
(***************************************************************************)
AdvanceEpochs(n) ==
    /\ epoch + n <= MaxEpoch
    /\ epoch' = epoch + n
    /\ UNCHANGED <<is_locked, adminVars, poolVars, stakeVars, requestVars, tokenVars,
                   allocations, allocators, pending, transfers, unlock_used>>

AdvanceEpoch == AdvanceEpochs(1)

(***************************************************************************)
(* Owner functionality (lib.rs)                                            *)
(***************************************************************************)
pause ==
    /\ check_not_paused
    /\ is_paused' = TRUE
    /\ transfers' = <<>>
    /\ UNCHANGED <<epoch, is_locked, fee, distribution_fee, min_deposit, default_delegation_pool,
                   poolVars, stakeVars, requestVars, tokenVars, allocations, allocators,
                   pending, unlock_used>>

unpause ==
    /\ is_paused
    /\ is_paused' = FALSE
    /\ transfers' = <<>>
    /\ UNCHANGED <<epoch, is_locked, fee, distribution_fee, min_deposit, default_delegation_pool,
                   poolVars, stakeVars, requestVars, tokenVars, allocations, allocators,
                   pending, unlock_used>>

manual_unlock ==
    /\ is_locked' = FALSE
    /\ unlock_used' = TRUE
    /\ transfers' = <<>>
    /\ UNCHANGED <<epoch, adminVars, poolVars, stakeVars, requestVars, tokenVars,
                   allocations, allocators, pending>>

FeeValues == {0, 2500}

set_fee(new_fee) ==
    /\ new_fee < FEE_PRECISION
    /\ fee' = new_fee
    /\ transfers' = <<>>
    /\ UNCHANGED <<epoch, is_locked, is_paused, distribution_fee, min_deposit,
                   default_delegation_pool, poolVars, stakeVars, requestVars, tokenVars,
                   allocations, allocators, pending, unlock_used>>

set_distribution_fee(new_distribution_fee) ==
    /\ new_distribution_fee < FEE_PRECISION
    /\ distribution_fee' = new_distribution_fee
    /\ transfers' = <<>>
    /\ UNCHANGED <<epoch, is_locked, is_paused, fee, min_deposit,
                   default_delegation_pool, poolVars, stakeVars, requestVars, tokenVars,
                   allocations, allocators, pending, unlock_used>>

add_pool(pool_id) ==
    /\ delegation_pools[pool_id].state = "NONE"
    /\ delegation_pools' = [delegation_pools EXCEPT ![pool_id] = NewPool]
    /\ delegation_pools_list' = Append(delegation_pools_list, pool_id)
    /\ transfers' = <<>>
    /\ UNCHANGED <<epoch, is_locked, adminVars, stakeVars, requestVars, tokenVars,
                   allocations, allocators, pending, unlock_used>>

enable_pool(pool_id) ==
    /\ delegation_pools[pool_id].state \notin {"NONE", "ENABLED"}
    /\ delegation_pools' = [delegation_pools EXCEPT ![pool_id].state = "ENABLED"]
    /\ transfers' = <<>>
    /\ UNCHANGED <<epoch, is_locked, adminVars, delegation_pools_list, stakeVars, requestVars,
                   tokenVars, allocations, allocators, pending, unlock_used>>

disable_pool(pool_id) ==
    /\ delegation_pools[pool_id].state \notin {"NONE", "DISABLED"}
    /\ delegation_pools' = [delegation_pools EXCEPT ![pool_id].state = "DISABLED"]
    /\ transfers' = <<>>
    /\ UNCHANGED <<epoch, is_locked, adminVars, delegation_pools_list, stakeVars, requestVars,
                   tokenVars, allocations, allocators, pending, unlock_used>>

(***************************************************************************)
(* Refresh: update_total_staked and total_staked_callback                  *)
(***************************************************************************)
\* mutant: update_total_staked without check_not_locked
update_total_staked_err_mut ==
    IF ~check_not_paused THEN ERR_PAUSED ELSE OK

update_total_staked_err ==
    IF ~check_not_paused THEN ERR_PAUSED
    ELSE IF ~check_not_locked THEN ERR_LOCKED
    ELSE OK

update_total_staked ==
    /\ update_total_staked_err = OK
    /\ Len(pending) < MaxPending
    /\ is_locked' = TRUE
    /\ pending' = Append(pending,
           [Continuation("refresh", "", "", 0) EXCEPT !.npromises = Len(delegation_pools_list)])
    /\ transfers' = <<>>
    /\ UNCHANGED <<epoch, adminVars, poolVars, stakeVars, requestVars, tokenVars,
                   allocations, allocators, unlock_used>>

\* first loop of total_staked_callback: "return" when a result failed or does
\* not parse, "panic" when promise_result is asked for an index that has no
\* promise, "ok" otherwise
refresh_scan(results) ==
    LET n == Len(results)
        bad == {i \in 1..n : results[i] \in {Failed, Unparsable}}
    IN  IF bad # {} /\ (CHOOSE i \in bad : \A j \in bad : i <= j) <= Len(delegation_pools_list)
        THEN "return"
        ELSE IF Len(delegation_pools_list) > n THEN "panic"
        ELSE "ok"

\* second loop: the i-th balance is written to the i-th listed pool
refresh_count(results) == Len(results)

refresh_underflows(results) ==
    \E i \in 1..refresh_count(results) :
        results[i] < delegation_pools[delegation_pools_list[i]].total_unstaked

refresh_pools(results) ==
    [p \in PoolIds |->
        IF \E i \in 1..refresh_count(results) : delegation_pools_list[i] = p
        THEN LET i == CHOOSE i \in 1..refresh_count(results) : delegation_pools_list[i] = p
             IN  [delegation_pools[p] EXCEPT
                    !.total_staked = results[i] - delegation_pools[p].total_unstaked]
        ELSE delegation_pools[p]]

total_staked_callback_mut(k, results) ==
    /\ k \in PendingOf("refresh")
    /\ Len(results) = pending[k].npromises
    /\ pending' = RemoveAt(pending, k)
    /\ IF \/ refresh_scan(results) = "panic"
          \/ refresh_scan(results) = "ok" /\ refresh_underflows(results)
       THEN UNCHANGED <<epoch, is_locked, adminVars, poolVars, stakeVars, requestVars, tokenVars,
                        allocations, allocators, transfers, unlock_used>>
       ELSE /\ is_locked' = FALSE
            /\ transfers' = <<>>
            /\ IF refresh_scan(results) = "return"
               THEN /\ total_staked_last_updated_at' = epoch
                    /\ UNCHANGED <<poolVars, total_staked, tax_exempt_stake>>
               ELSE /\ delegation_pools' = refresh_pools(results)
                    /\ total_staked' = SumOver([i \in 1..refresh_count(results) |->
                            refresh_pools(results)[delegation_pools_list[i]].total_staked],
                            1..refresh_count(results))
                    /\ total_staked_last_updated_at' = epoch
                    /\ UNCHANGED <<delegation_pools_list, tax_exempt_stake>>
            /\ UNCHANGED <<epoch, adminVars, requestVars, tokenVars, allocations, allocators,
                           unlock_used>>

total_staked_callback(k, results) ==
    /\ k \in PendingOf("refresh")
    /\ Len(results) = pending[k].npromises
    /\ pending' = RemoveAt(pending, k)
    /\ IF \/ refresh_scan(results) = "panic"
          \/ refresh_scan(results) = "ok" /\ refresh_underflows(results)
       THEN UNCHANGED <<epoch, is_locked, adminVars, poolVars, stakeVars, requestVars, tokenVars,
                        allocations, allocators, transfers, unlock_used>>
       ELSE /\ is_locked' = FALSE
            /\ transfers' = <<>>
            /\ IF refresh_scan(results) = "return"
               THEN UNCHANGED <<poolVars, stakeVars>>
               ELSE /\ delegation_pools' = refresh_pools(results)
                    /\ total_staked' = SumOver([i \in 1..refresh_count(results) |->
                            refresh_pools(results)[delegation_pools_list[i]].total_staked],
                            1..refresh_count(results))
                    /\ total_staked_last_updated_at' = epoch
                    /\ UNCHANGED <<delegation_pools_list, tax_exempt_stake>>
            /\ UNCHANGED <<epoch, adminVars, requestVars, tokenVars, allocations, allocators,
                           unlock_used>>


(***************************************************************************)
(* Stake: stake, stake_to_specific_pool, finalize_deposit_and_stake        *)
(***************************************************************************)
\* internal_deposit_and_stake: the error it raises, OK if none
internal_deposit_and_stake_err(pool_id, amount) ==
    IF check_pool(pool_id) # OK THEN check_pool(pool_id)
    ELSE IF amount < min_deposit THEN ERR_STAKE_BELOW_MIN_DEPOSIT
    ELSE IF ~check_contract_in_sync THEN ERR_NOT_IN_SYNC
    ELSE OK

stake_err(caller, pool_id, amount) ==
    IF ~check_not_paused THEN ERR_PAUSED
    ELSE IF ~check_not_locked THEN ERR_LOCKED
    ELSE IF ~check_whitelisted(caller) THEN ERR_USER_NOT_WHITELISTED
    ELSE internal_deposit_and_stake_err(pool_id, amount)

send_stake_promises(pool_id, amount, caller) ==
    /\ Len(pending) < MaxPending
    /\ total_staked + amount <= MaxTotal
    /\ tax_exempt_stake + amount <= MaxTotal
    /\ IF convert_to_shares_panics(share_price) THEN TRUE
       ELSE total_supply + convert_to_shares(amount, share_price, FALSE) <= MaxSupply
    /\ is_locked' = TRUE
    /\ pending' = Append(pending, Continuation("stake", pool_id, caller, amount))
    /\ transfers' = <<>>
    /\ UNCHANGED <<epoch, adminVars, poolVars, stakeVars, requestVars, tokenVars,
                   allocations, allocators, unlock_used>>

stake_to_specific_pool(caller, pool_id, amount) ==
    /\ stake_err(caller, pool_id, amount) = OK
    /\ send_stake_promises(pool_id, amount, caller)

stake(caller, amount) ==
    /\ stake_err(caller, default_delegation_pool, amount) = OK
    /\ send_stake_promises(default_delegation_pool, amount, caller)

\* mutant: a failed remote call is handled like a stake that raised nothing
finalize_deposit_and_stake_outcome_mut(c, stake_result) ==
    LET pool == delegation_pools[c.pool_id] IN
    IF stake_result = Err THEN "failed"
    ELSE IF stake_result < pool.total_unstaked THEN "panic"
    ELSE IF pool.total_staked >= stake_result - pool.total_unstaked THEN "failed"
    ELSE IF convert_to_shares_panics(share_price) THEN "panic"
    ELSE "mint"

\* outcome of finalize_deposit_and_stake for the continuation c and the
\* callback result: "refund", "panic", "failed" (logged, nothing done) or "mint"
finalize_deposit_and_stake_outcome(c, stake_result) ==
    LET pool == delegation_pools[c.pool_id] IN
    IF stake_result = Err THEN "refund"
    ELSE IF stake_result < pool.total_unstaked THEN "panic"
    ELSE IF pool.total_staked >= stake_result - pool.total_unstaked THEN "failed"
    ELSE IF convert_to_shares_panics(share_price) THEN "panic"
    ELSE "mint"

finalize_deposit_and_stake(k, stake_result) ==
    LET c == pending[k]
        outcome == finalize_deposit_and_stake_outcome(c, stake_result)
        shares_amount == convert_to_shares(c.amount, share_price, FALSE)
    IN
    /\ k \in PendingOf("stake")
    /\ pending' = RemoveAt(pending, k)
    /\ UNCHANGED <<epoch, adminVars, delegation_pools_list, total_staked_last_updated_at,
                   requestVars, allocations, allocators, unlock_used>>
    /\ CASE outcome = "panic" ->
                UNCHANGED <<is_locked, delegation_pools, total_staked, tax_exempt_stake,
                            tokenVars, transfers>>
         [] outcome = "refund" ->
                /\ is_locked' = FALSE
                /\ transfers' = <<[to |-> c.caller, amount |-> c.amount]>>
                /\ UNCHANGED <<delegation_pools, total_staked, tax_exempt_stake, tokenVars>>
         [] outcome = "failed" ->
                /\ is_locked' = FALSE
                /\ transfers' = <<>>
                /\ UNCHANGED <<delegation_pools, total_staked, tax_exempt_stake, tokenVars>>
         [] outcome = "mint" ->
                /\ is_locked' = FALSE
                /\ delegation_pools' = [delegation_pools EXCEPT
                        ![c.pool_id].total_staked = @ + c.amount]
                /\ total_staked' = total_staked + c.amount
                /\ tax_exempt_stake' = tax_exempt_stake + c.amount
                /\ accounts' = mint_accounts(accounts, shares_amount, c.caller)
                /\ total_supply' = total_supply + shares_amount
                /\ transfers' = <<>>

(***************************************************************************)
(* Unstake: unstake, unstake_from_specific_pool, finalize_unstake          *)
(***************************************************************************)
\* internal_check_unstake_amount: the amount that will be unstaked
checked_unstake_amount_mut(amount, caller) == amount

checked_unstake_amount(amount, caller) ==
    IF max_withdraw(caller) - amount < ONE_NEAR THEN max_withdraw(caller) ELSE amount

unlock_window_open_mut(pool_id) == TRUE

unlock_window_open(pool_id) ==
    LET last_unstake == delegation_pools[pool_id].last_unstake IN
    \/ last_unstake = NoEpoch
    \/ last_unstake = epoch
    \/ last_unstake + NUM_EPOCHS_TO_UNLOCK <= epoch

\* internal_unstake up to the call of send_unstake_promises
internal_unstake_err(pool_id, amount, caller, attached_near) ==
    IF ~check_contract_in_sync THEN ERR_NOT_IN_SYNC
    ELSE IF attached_near < StorageCost THEN ERR_STORAGE_DEPOSIT_TOO_SMALL
    ELSE IF ~unlock_window_open(pool_id) THEN ERR_UNSTAKE_LOCKED
    ELSE IF max_withdraw(caller) < amount THEN ERR_INVALID_UNSTAKE_AMOUNT
    ELSE IF delegation_pools[pool_id].total_staked < checked_unstake_amount(amount, caller)
         THEN ERR_INSUFFICIENT_FUNDS_ON_POOL
    ELSE OK

\* send_unstake_promises: the error it raises for the amount to unstake
send_unstake_promises_err(amount, caller) ==
    IF convert_to_shares_panics(share_price) THEN PANIC
    ELSE IF convert_to_shares(amount, share_price, FALSE) = 0 THEN OK
    ELSE IF convert_to_shares(amount, share_price, FALSE) > ft_balance_of(caller)
         THEN ERR_INSUFFICIENT_TRUNEAR_BALANCE
    ELSE IF total_staked < amount THEN PANIC
    ELSE OK

unstake_err(caller, pool_id, amount, attached_near, specific) ==
    IF ~check_not_paused THEN ERR_PAUSED
    ELSE IF ~check_not_locked THEN ERR_LOCKED
    ELSE IF ~check_whitelisted(caller) THEN ERR_USER_NOT_WHITELISTED
    ELSE IF specific /\ delegation_pools[pool_id].state = "NONE" THEN ERR_POOL_DOES_NOT_EXIST
    ELSE IF internal_unstake_err(pool_id, amount, caller, attached_near) # OK
         THEN internal_unstake_err(pool_id, amount, caller, attached_near)
    ELSE send_unstake_promises_err(checked_unstake_amount(amount, caller), caller)

\* mutant: matured value is never pulled before a new unstake
withdraw_before_unstake_mut(pool_id) == FALSE

withdraw_before_unstake(pool_id) ==
    LET pool_info == delegation_pools[pool_id] IN
    /\ pool_info.last_unstake # NoEpoch
    /\ pool_info.last_unstake + NUM_EPOCHS_TO_UNLOCK <= epoch
    /\ pool_info.total_unstaked > 0

send_unstake_promises(pool_id, amount, caller, attached_near) ==
    LET shares_amount == convert_to_shares(amount, share_price, FALSE) IN
    IF shares_amount = 0
    THEN /\ is_locked' = FALSE
         /\ transfers' = <<[to |-> caller, amount |-> attached_near]>>
         /\ UNCHANGED <<epoch, adminVars, poolVars, stakeVars, requestVars, tokenVars,
                        allocations, allocators, pending, unlock_used>>
    ELSE /\ Len(pending) < MaxPending
         /\ unstake_nonce + Cardinality(PendingOf("unstake")) < Len(unstake_requests)
         /\ is_locked' = TRUE
         /\ accounts' = burn_accounts(accounts, shares_amount, caller)
         /\ total_supply' = total_supply - shares_amount
         /\ total_staked' = total_staked - amount
         /\ tax_exempt_stake' = saturating_sub(tax_exempt_stake, amount)
         /\ pending' = Append(pending,
                [Continuation("unstake", pool_id, caller, amount) EXCEPT
                    !.shares_amount = shares_amount,
                    !.withdraw_occurred = withdraw_before_unstake(pool_id),
                    !.attached_near = attached_near,
                    !.unstake_epoch = epoch,
                    !.before = Snapshot(caller, pool_id),
                    !.after = [Snapshot(caller, pool_id) EXCEPT
                        !.balance = @ - shares_amount,
                        !.total_supply = @ - shares_amount,
                        !.total_staked = @ - amount,
                        !.tax_exempt_stake = saturating_sub(@, amount)]])
         /\ transfers' = <<>>
         /\ UNCHANGED <<epoch, adminVars, poolVars, total_staked_last_updated_at, requestVars,
                        allocations, allocators, unlock_used>>

unstake_from_specific_pool(caller, pool_id, amount, attached_near) ==
    /\ unstake_err(caller, pool_id, amount, attached_near, TRUE) = OK
    /\ send_unstake_promises(pool_id, checked_unstake_amount(amount, caller), caller,
                             attached_near)

unstake(caller, amount, attached_near) ==
    /\ unstake_err(caller, default_delegation_pool, amount, attached_near, FALSE) = OK
    /\ send_unstake_promises(default_delegation_pool,
                             checked_unstake_amount(amount, caller), caller, attached_near)

\* outcome of finalize_unstake: "rollback" on a failed promise, "panic" when a
\* checked subtraction underflows, "commit" otherwise
finalize_unstake_outcome(c, new_unstaked_amount) ==
    IF new_unstaked_amount = Err THEN "rollback"
    ELSE IF delegation_pools[c.pool_id].total_staked < c.amount THEN "panic"
    ELSE IF total_staked < c.amount THEN "panic"
    ELSE "commit"

\* mutant: the value withdrawn before the unstake is not added to withdrawn_amount
finalize_unstake_mut(k, new_unstaked_amount) ==
    LET c == pending[k]
        outcome == finalize_unstake_outcome(c, new_unstaked_amount)
        pool == delegation_pools[c.pool_id]
    IN
    /\ k \in PendingOf("unstake")
    /\ pending' = RemoveAt(pending, k)
    /\ UNCHANGED <<epoch, adminVars, delegation_pools_list, total_staked_last_updated_at,
                   allocations, allocators, unlock_used>>
    /\ CASE outcome = "panic" ->
                UNCHANGED <<is_locked, delegation_pools, total_staked, tax_exempt_stake,
                            requestVars, tokenVars, transfers>>
         [] outcome = "rollback" ->
                /\ is_locked' = FALSE
                /\ accounts' = mint_accounts(accounts, c.shares_amount, c.caller)
                /\ total_supply' = total_supply + c.shares_amount
                /\ transfers' = <<[to |-> c.caller, amount |-> c.attached_near]>>
                /\ UNCHANGED <<delegation_pools, total_staked, tax_exempt_stake, requestVars>>
         [] outcome = "commit" ->
                /\ is_locked' = FALSE
                /\ withdrawn_amount' = withdrawn_amount
                /\ delegation_pools' = [delegation_pools EXCEPT ![c.pool_id] =
                        [pool EXCEPT
                            !.total_unstaked = IF c.withdraw_occurred THEN c.amount
                                               ELSE pool.total_unstaked + c.amount,
                            !.last_unstake = c.unstake_epoch,
                            !.total_staked = pool.total_staked - c.amount]]
                /\ total_staked' = total_staked - c.amount
                /\ tax_exempt_stake' = saturating_sub(tax_exempt_stake, c.amount)
                /\ unstake_nonce' = unstake_nonce + 1
                /\ unstake_requests' = [unstake_requests EXCEPT ![unstake_nonce + 1] =
                        [user |-> c.caller, near_amount |-> c.amount, pool_id |-> c.pool_id,
                         epoch |-> c.unstake_epoch]]
                /\ transfers' = IF c.attached_near > StorageCost
                                THEN <<[to |-> c.caller, amount |-> c.attached_near - StorageCost]>>
                                ELSE <<>>
                /\ UNCHANGED tokenVars

finalize_unstake(k, new_unstaked_amount) ==
    LET c == pending[k]
        outcome == finalize_unstake_outcome(c, new_unstaked_amount)
        pool == delegation_pools[c.pool_id]
    IN
    /\ k \in PendingOf("unstake")
    /\ pending' = RemoveAt(pending, k)
    /\ UNCHANGED <<epoch, adminVars, delegation_pools_list, total_staked_last_updated_at,
                   allocations, allocators, unlock_used>>
    /\ CASE outcome = "panic" ->
                UNCHANGED <<is_locked, delegation_pools, total_staked, tax_exempt_stake,
                            requestVars, tokenVars, transfers>>
         [] outcome = "rollback" ->
                /\ is_locked' = FALSE
                /\ accounts' = mint_accounts(accounts, c.shares_amount, c.caller)
                /\ total_supply' = total_supply + c.shares_amount
                /\ transfers' = <<[to |-> c.caller, amount |-> c.attached_near]>>
                /\ UNCHANGED <<delegation_pools, total_staked, tax_exempt_stake, requestVars>>
         [] outcome = "commit" ->
                /\ is_locked' = FALSE
                /\ withdrawn_amount' = IF c.withdraw_occurred
                                       THEN withdrawn_amount + pool.total_unstaked
                                       ELSE withdrawn_amount
                /\ delegation_pools' = [delegation_pools EXCEPT ![c.pool_id] =
                        [pool EXCEPT
                            !.total_unstaked = IF c.withdraw_occurred THEN c.amount
                                               ELSE pool.total_unstaked + c.amount,
                            !.last_unstake = c.unstake_epoch,
                            !.total_staked = pool.total_staked - c.amount]]
                /\ total_staked' = total_staked - c.amount
                /\ tax_exempt_stake' = saturating_sub(tax_exempt_stake, c.amount)
                /\ unstake_nonce' = unstake_nonce + 1
                /\ unstake_requests' = [unstake_requests EXCEPT ![unstake_nonce + 1] =
                        [user |-> c.caller, near_amount |-> c.amount, pool_id |-> c.pool_id,
                         epoch |-> c.unstake_epoch]]
                /\ transfers' = IF c.attached_near > StorageCost
                                THEN <<[to |-> c.caller, amount |-> c.attached_near - StorageCost]>>
                                ELSE <<>>
                /\ UNCHANGED tokenVars


(***************************************************************************)
(* Withdraw: withdraw, withdraw_callback, finalize_withdraw                *)
(***************************************************************************)
request_exists(nonce) ==
    nonce \in DOMAIN unstake_requests /\ unstake_requests[nonce] # NoRequest

withdraw_err_mut(caller, nonce) ==
    IF ~check_not_paused THEN ERR_PAUSED
    ELSE IF ~check_not_locked THEN ERR_LOCKED
    ELSE IF ~check_whitelisted(caller) THEN ERR_USER_NOT_WHITELISTED
    ELSE IF ~request_exists(nonce) THEN ERR_INVALID_NONCE
    ELSE IF unstake_requests[nonce].epoch + NUM_EPOCHS_TO_UNLOCK > epoch THEN ERR_WITHDRAW_NOT_READY
    ELSE OK

withdraw_err(caller, nonce) ==
    IF ~check_not_paused THEN ERR_PAUSED
    ELSE IF ~check_not_locked THEN ERR_LOCKED
    ELSE IF ~check_whitelisted(caller) THEN ERR_USER_NOT_WHITELISTED
    ELSE IF ~request_exists(nonce) THEN ERR_INVALID_NONCE
    ELSE IF unstake_requests[nonce].user # caller THEN ERR_SENDER_MUST_BE_RECEIVER
    ELSE IF unstake_requests[nonce].epoch + NUM_EPOCHS_TO_UNLOCK > epoch THEN ERR_WITHDRAW_NOT_READY
    ELSE OK

\* internal_withdraw: matured unstaked value still sits on the pool
pool_has_withdrawable(pool_id) ==
    /\ delegation_pools[pool_id].last_unstake + NUM_EPOCHS_TO_UNLOCK <= epoch
    /\ delegation_pools[pool_id].total_unstaked > 0

\* finalize_withdraw, run with `withdrawn` as the value of withdrawn_amount:
\* "skip" (logged, nothing done), "panic" (the request is gone) or "pay"
finalize_withdraw_outcome_mut(withdrawn, nonce, request_amount) ==
    IF ~request_exists(nonce) THEN "panic" ELSE "pay"

finalize_withdraw_outcome(withdrawn, nonce, request_amount) ==
    IF withdrawn < request_amount THEN "skip"
    ELSE IF ~request_exists(nonce) THEN "panic"
    ELSE "pay"

finalize_withdraw_mut(withdrawn, nonce, request_amount) ==
    IF finalize_withdraw_outcome(withdrawn, nonce, request_amount) = "skip"
    THEN /\ withdrawn_amount' = withdrawn
         /\ transfers' = <<>>
         /\ UNCHANGED <<unstake_nonce, unstake_requests>>
    ELSE /\ withdrawn_amount' = withdrawn - request_amount
         /\ transfers' = <<[to |-> unstake_requests[nonce].user,
                            amount |-> unstake_requests[nonce].near_amount + StorageCost]>>
         /\ UNCHANGED <<unstake_nonce, unstake_requests>>

finalize_withdraw(withdrawn, nonce, request_amount) ==
    IF finalize_withdraw_outcome(withdrawn, nonce, request_amount) = "skip"
    THEN /\ withdrawn_amount' = withdrawn
         /\ transfers' = <<>>
         /\ UNCHANGED <<unstake_nonce, unstake_requests>>
    ELSE /\ withdrawn_amount' = withdrawn - request_amount
         /\ unstake_requests' = [unstake_requests EXCEPT ![nonce] = NoRequest]
         /\ transfers' = <<[to |-> unstake_requests[nonce].user,
                            amount |-> unstake_requests[nonce].near_amount + StorageCost]>>
         /\ UNCHANGED unstake_nonce

withdraw(caller, nonce) ==
    /\ withdraw_err(caller, nonce) = OK
    /\ LET request == unstake_requests[nonce] IN
       IF pool_has_withdrawable(request.pool_id)
       THEN /\ Len(pending) < MaxPending
            /\ is_locked' = TRUE
            /\ pending' = Append(pending,
                  [Continuation("withdraw", request.pool_id, caller,
                                delegation_pools[request.pool_id].total_unstaked) EXCEPT
                      !.unstake_nonce = nonce,
                      !.request_amount = request.near_amount])
            /\ transfers' = <<>>
            /\ UNCHANGED <<epoch, adminVars, poolVars, stakeVars, requestVars, tokenVars,
                           allocations, allocators, unlock_used>>
       ELSE /\ finalize_withdraw(withdrawn_amount, nonce, request.near_amount)
            /\ is_locked' = FALSE
            /\ UNCHANGED <<epoch, adminVars, poolVars, stakeVars, tokenVars,
                           allocations, allocators, pending, unlock_used>>

withdraw_callback_mut(k, staker_unstaked_balance) ==
    LET c == pending[k] IN
    /\ k \in PendingOf("withdraw")
    /\ pending' = RemoveAt(pending, k)
    /\ UNCHANGED <<epoch, adminVars, delegation_pools_list, stakeVars, tokenVars,
                   allocations, allocators, unlock_used>>
    /\ IF staker_unstaked_balance = Err
       THEN /\ is_locked' = FALSE
            /\ transfers' = <<>>
            /\ withdrawn_amount' = withdrawn_amount + c.amount
            /\ delegation_pools' = [delegation_pools EXCEPT ![c.pool_id].total_unstaked = 0]
            /\ UNCHANGED <<unstake_nonce, unstake_requests>>
       ELSE IF finalize_withdraw_outcome(withdrawn_amount + c.amount, c.unstake_nonce,
                                         c.request_amount) = "panic"
       THEN UNCHANGED <<is_locked, delegation_pools, requestVars, transfers>>
       ELSE /\ is_locked' = FALSE
            /\ delegation_pools' = [delegation_pools EXCEPT ![c.pool_id].total_unstaked = 0]
            /\ finalize_withdraw(withdrawn_amount + c.amount, c.unstake_nonce, c.request_amount)

withdraw_callback(k, staker_unstaked_balance) ==
    LET c == pending[k] IN
    /\ k \in PendingOf("withdraw")
    /\ pending' = RemoveAt(pending, k)
    /\ UNCHANGED <<epoch, adminVars, delegation_pools_list, stakeVars, tokenVars,
                   allocations, allocators, unlock_used>>
    /\ IF staker_unstaked_balance = Err
       THEN /\ is_locked' = FALSE
            /\ transfers' = <<>>
            /\ UNCHANGED <<delegation_pools, requestVars>>
       ELSE IF finalize_withdraw_outcome(withdrawn_amount + c.amount, c.unstake_nonce,
                                         c.request_amount) = "panic"
       THEN UNCHANGED <<is_locked, delegation_pools, requestVars, transfers>>
       ELSE /\ is_locked' = FALSE
            /\ delegation_pools' = [delegation_pools EXCEPT ![c.pool_id].total_unstaked = 0]
            /\ finalize_withdraw(withdrawn_amount + c.amount, c.unstake_nonce, c.request_amount)

(***************************************************************************)
(* Fees: collect_fees, internal_collect_fees                               *)
(***************************************************************************)
collect_fees_err ==
    IF ~check_not_paused THEN ERR_PAUSED
    ELSE IF ~check_contract_in_sync THEN ERR_NOT_IN_SYNC
    ELSE IF convert_to_shares_panics(share_price) THEN PANIC
    ELSE OK

share_increase_treasury ==
    LET taxable_amount == saturating_sub(total_staked, tax_exempt_stake)
        near_amount_increase_treasury ==
            mul_div_with_rounding(taxable_amount, fee, FEE_PRECISION, FALSE)
    IN  convert_to_shares(near_amount_increase_treasury, share_price, FALSE)

\* mutant: the minted fee shares do not settle the taxable stake
internal_collect_fees_mut ==
    IF share_increase_treasury > 0
    THEN /\ accounts' = mint_accounts(accounts, share_increase_treasury, Treasury)
         /\ total_supply' = total_supply + share_increase_treasury
         /\ UNCHANGED <<total_staked, total_staked_last_updated_at, tax_exempt_stake>>
    ELSE UNCHANGED <<tokenVars, stakeVars>>

internal_collect_fees ==
    IF share_increase_treasury > 0
    THEN /\ accounts' = mint_accounts(accounts, share_increase_treasury, Treasury)
         /\ total_supply' = total_supply + share_increase_treasury
         /\ tax_exempt_stake' = total_staked
         /\ UNCHANGED <<total_staked, total_staked_last_updated_at>>
    ELSE UNCHANGED <<tokenVars, stakeVars>>

collect_fees ==
    /\ collect_fees_err = OK
    /\ total_supply + share_increase_treasury <= MaxSupply
    /\ internal_collect_fees
    /\ transfers' = <<>>
    /\ UNCHANGED <<epoch, is_locked, adminVars, poolVars, requestVars,
                   allocations, allocators, pending, unlock_used>>

(***************************************************************************)
(* Share token: ft_transfer (trunear/core.rs), internal_transfer           *)
(***************************************************************************)
\* FungibleToken::internal_transfer panics unless all of these hold
internal_transfer_ok(accs, sender_id, receiver_id, amount) ==
    /\ sender_id # receiver_id
    /\ amount > 0
    /\ accs[sender_id] # Unregistered
    /\ accs[sender_id] >= amount
    /\ accs[receiver_id] # Unregistered

internal_transfer(accs, sender_id, receiver_id, amount) ==
    [accs EXCEPT ![sender_id] = @ - amount, ![receiver_id] = @ + amount]

ft_transfer(sender_id, receiver_id, amount) ==
    /\ internal_transfer_ok(accounts, sender_id, receiver_id, amount)
    /\ accounts' = internal_transfer(accounts, sender_id, receiver_id, amount)
    /\ transfers' = <<>>
    /\ UNCHANGED <<epoch, is_locked, adminVars, poolVars, stakeVars, requestVars,
                   total_supply, allocations, allocators, pending, unlock_used>>


(***************************************************************************)
(* Allocations: allocate, deallocate                                       *)
(***************************************************************************)
has_allocation(allocs, allocator, recipient) == allocs[<<allocator, recipient>>] # NoAllocation

recipients_of(allocs, allocator) ==
    {r \in AccountIds : has_allocation(allocs, allocator, r)}

\* calculate_updated_allocation divides by both price numerators over the scale
calculate_updated_allocation_panics(existing, price) ==
    \/ existing.share_price_num \div SHARE_PRICE_SCALING_FACTOR = 0
    \/ price[1] \div SHARE_PRICE_SCALING_FACTOR = 0

calculate_updated_allocation_mut(existing, amount, price) ==
    [near_amount |-> existing.near_amount + amount,
     share_price_num |-> (existing.near_amount + amount) * SHARE_PRICE_SCALING_FACTOR,
     share_price_denom |->
        mul_div_with_rounding(existing.near_amount, existing.share_price_denom,
            existing.share_price_num \div SHARE_PRICE_SCALING_FACTOR, TRUE)
        + mul_div_with_rounding(amount, price[2],
            price[1] \div SHARE_PRICE_SCALING_FACTOR, TRUE)]

calculate_updated_allocation(existing, amount, price) ==
    [near_amount |-> existing.near_amount + amount,
     share_price_num |-> (existing.near_amount + amount) * SHARE_PRICE_SCALING_FACTOR,
     share_price_denom |->
        mul_div_with_rounding(existing.near_amount, existing.share_price_denom,
            existing.share_price_num \div SHARE_PRICE_SCALING_FACTOR, FALSE)
        + mul_div_with_rounding(amount, price[2],
            price[1] \div SHARE_PRICE_SCALING_FACTOR, FALSE)]

\* get_total_allocated folds calculate_updated_allocation over the allocator's
\* records; with two or more records a zero price numerator divides by zero
get_total_allocated_panics(allocs, allocator) ==
    /\ Cardinality(recipients_of(allocs, allocator)) >= 2
    /\ \E r \in recipients_of(allocs, allocator) :
          allocs[<<allocator, r>>].share_price_num \div SHARE_PRICE_SCALING_FACTOR = 0

allocated(allocator, recipient, amount) ==
    IF has_allocation(allocations, allocator, recipient)
    THEN [allocations EXCEPT ![<<allocator, recipient>>] =
            calculate_updated_allocation(@, amount, share_price)]
    ELSE [allocations EXCEPT ![<<allocator, recipient>>] =
            [near_amount |-> amount, share_price_num |-> share_price[1],
             share_price_denom |-> share_price[2]]]

allocate_err(allocator, recipient, amount, attached_deposit) ==
    IF ~check_not_paused THEN ERR_PAUSED
    ELSE IF ~check_whitelisted(allocator) THEN ERR_USER_NOT_WHITELISTED
    ELSE IF recipient = allocator THEN ERR_INVALID_RECIPIENT
    ELSE IF amount < ONE_NEAR THEN ERR_ALLOCATION_UNDER_ONE_NEAR
    ELSE IF has_allocation(allocations, allocator, recipient)
            /\ calculate_updated_allocation_panics(allocations[<<allocator, recipient>>], share_price)
         THEN PANIC
    ELSE IF ~has_allocation(allocations, allocator, recipient) /\ attached_deposit < StorageCost
         THEN ERR_STORAGE_DEPOSIT_TOO_SMALL
    ELSE IF get_total_allocated_panics(allocated(allocator, recipient, amount), allocator)
         THEN PANIC
    ELSE OK

MaxAllocation == 2
MaxTopUp == 4

\* allocate, for allocations of at most cap
allocate_capped(allocator, recipient, amount, attached_deposit, cap) ==
    LET storage_cost == IF has_allocation(allocations, allocator, recipient)
                        THEN 0 ELSE StorageCost
    IN
    /\ allocate_err(allocator, recipient, amount, attached_deposit) = OK
    /\ allocations[<<allocator, recipient>>].near_amount + amount <= cap
    /\ allocations' = allocated(allocator, recipient, amount)
    /\ allocators' = allocators \cup {allocator}
    /\ transfers' = IF attached_deposit > storage_cost
                    THEN <<[to |-> allocator, amount |-> attached_deposit - storage_cost]>>
                    ELSE <<>>
    /\ UNCHANGED <<epoch, is_locked, adminVars, poolVars, stakeVars, requestVars,
                   tokenVars, pending, unlock_used>>

allocate(allocator, recipient, amount, attached_deposit) ==
    allocate_capped(allocator, recipient, amount, attached_deposit, MaxAllocation)

deallocated(deallocator, recipient, amount) ==
    IF allocations[<<deallocator, recipient>>].near_amount = amount
    THEN [allocations EXCEPT ![<<deallocator, recipient>>] = NoAllocation]
    ELSE [allocations EXCEPT ![<<deallocator, recipient>>].near_amount = @ - amount]

\* mutant: a deallocation may leave less than one base unit allocated
deallocate_err_mut(deallocator, recipient, amount) ==
    IF ~check_not_paused THEN ERR_PAUSED
    ELSE IF ~check_whitelisted(deallocator) THEN ERR_USER_NOT_WHITELISTED
    ELSE IF deallocator \notin allocators THEN ERR_NO_ALLOCATIONS
    ELSE IF ~has_allocation(allocations, deallocator, recipient)
         THEN ERR_NO_ALLOCATIONS_TO_RECIPIENT
    ELSE IF amount > allocations[<<deallocator, recipient>>].near_amount
         THEN ERR_EXCESSIVE_DEALLOCATION
    ELSE IF get_total_allocated_panics(deallocated(deallocator, recipient, amount), deallocator)
         THEN PANIC
    ELSE OK

deallocate_err(deallocator, recipient, amount) ==
    IF ~check_not_paused THEN ERR_PAUSED
    ELSE IF ~check_whitelisted(deallocator) THEN ERR_USER_NOT_WHITELISTED
    ELSE IF deallocator \notin allocators THEN ERR_NO_ALLOCATIONS
    ELSE IF ~has_allocation(allocations, deallocator, recipient)
         THEN ERR_NO_ALLOCATIONS_TO_RECIPIENT
    ELSE IF amount > allocations[<<deallocator, recipient>>].near_amount
         THEN ERR_EXCESSIVE_DEALLOCATION
    ELSE IF /\ allocations[<<deallocator, recipient>>].near_amount - amount # 0
            /\ allocations[<<deallocator, recipient>>].near_amount - amount < ONE_NEAR
         THEN ERR_ALLOCATION_UNDER_ONE_NEAR
    ELSE IF get_total_allocated_panics(deallocated(deallocator, recipient, amount), deallocator)
         THEN PANIC
    ELSE OK

deallocate(deallocator, recipient, amount) ==
    /\ deallocate_err(deallocator, recipient, amount) = OK
    /\ allocations' = deallocated(deallocator, recipient, amount)
    /\ transfers' = IF allocations[<<deallocator, recipient>>].near_amount = amount
                    THEN <<[to |-> deallocator, amount |-> StorageCost]>>
                    ELSE <<>>
    /\ UNCHANGED <<epoch, is_locked, adminVars, poolVars, stakeVars, requestVars,
                   tokenVars, allocators, pending, unlock_used>>

(***************************************************************************)
(* Distribution: internal_distribute, distribute_rewards, distribute_all   *)
(***************************************************************************)
\* internal_calculate_distribution_amount: division by zero or U256 underflow
distribution_amount_panics(allocation, price) ==
    \/ allocation.share_price_num \div SHARE_PRICE_SCALING_FACTOR = 0
    \/ price[1] \div SHARE_PRICE_SCALING_FACTOR = 0
    \/ mul_div_with_rounding(allocation.near_amount, allocation.share_price_denom,
            allocation.share_price_num \div SHARE_PRICE_SCALING_FACTOR, FALSE)
       < mul_div_with_rounding(allocation.near_amount, price[2],
            price[1] \div SHARE_PRICE_SCALING_FACTOR, FALSE)

internal_calculate_distribution_amount(allocation, price) ==
    mul_div_with_rounding(allocation.near_amount, allocation.share_price_denom,
        allocation.share_price_num \div SHARE_PRICE_SCALING_FACTOR, FALSE)
    - mul_div_with_rounding(allocation.near_amount, price[2],
        price[1] \div SHARE_PRICE_SCALING_FACTOR, FALSE)

\* mutant: the stored price of the allocation is not reset after a distribution
internal_distribute_mut(accs, allocs, distributor, recipient, price, in_near, attached_near) ==
    LET allocation == allocs[<<distributor, recipient>>]
        unchanged == [status |-> "none", accs |-> accs, allocs |-> allocs,
                      refund_amount |-> attached_near, paid |-> <<>>, fees |-> 0,
                      shares_amount |-> 0]
    IN
    IF allocation.share_price_denom = 0 THEN [unchanged EXCEPT !.status = "panic"]
    ELSE IF allocation.share_price_num \div allocation.share_price_denom
            = price[1] \div price[2]
    THEN unchanged
    ELSE IF distribution_amount_panics(allocation, price)
    THEN [unchanged EXCEPT !.status = "panic"]
    ELSE
    LET rewards == internal_calculate_distribution_amount(allocation, price)
        fees == (rewards * distribution_fee) \div FEE_PRECISION
        shares_to_move == rewards - fees
        near_amount == convert_to_assets(shares_to_move, price, FALSE)
    IN
    IF fees > 0 /\ ~internal_transfer_ok(accs, distributor, Treasury, fees)
    THEN [unchanged EXCEPT !.status = "panic"]
    ELSE
    LET accs1 == IF fees > 0 THEN internal_transfer(accs, distributor, Treasury, fees) ELSE accs
        allocs1 == allocs
    IN
    IF in_near
    THEN IF near_amount > attached_near
         THEN [unchanged EXCEPT !.status = "err", !.accs = accs1, !.fees = fees]
         ELSE [status |-> "ok", accs |-> accs1, allocs |-> allocs1,
               refund_amount |-> attached_near - near_amount,
               paid |-> <<[to |-> recipient, amount |-> near_amount]>>, fees |-> fees,
               shares_amount |-> shares_to_move]
    ELSE IF shares_to_move > Max(accs1[distributor], 0)
         THEN [unchanged EXCEPT !.status = "err", !.accs = accs1, !.fees = fees]
         ELSE
         LET accs2 == IF accs1[recipient] = Unregistered
                      THEN [accs1 EXCEPT ![recipient] = 0] ELSE accs1
         IN  IF ~internal_transfer_ok(accs2, distributor, recipient, shares_to_move)
             THEN [unchanged EXCEPT !.status = "panic"]
             ELSE [status |-> "ok",
                   accs |-> internal_transfer(accs2, distributor, recipient, shares_to_move),
                   allocs |-> allocs1, refund_amount |-> attached_near, paid |-> <<>>,
                   fees |-> fees, shares_amount |-> shares_to_move]

\* internal_distribute on the token accounts accs and allocation table allocs.
\* status: "panic", "none" (Ok(None)), "err" (an Err result) or "ok".
internal_distribute(accs, allocs, distributor, recipient, price, in_near, attached_near) ==
    LET allocation == allocs[<<distributor, recipient>>]
        unchanged == [status |-> "none", accs |-> accs, allocs |-> allocs,
                      refund_amount |-> attached_near, paid |-> <<>>, fees |-> 0,
                      shares_amount |-> 0]
    IN
    IF allocation.share_price_denom = 0 THEN [unchanged EXCEPT !.status = "panic"]
    ELSE IF allocation.share_price_num \div allocation.share_price_denom
            = price[1] \div price[2]
    THEN unchanged
    ELSE IF distribution_amount_panics(allocation, price)
    THEN [unchanged EXCEPT !.status = "panic"]
    ELSE
    LET rewards == internal_calculate_distribution_amount(allocation, price)
        fees == (rewards * distribution_fee) \div FEE_PRECISION
        shares_to_move == rewards - fees
        near_amount == convert_to_assets(shares_to_move, price, FALSE)
    IN
    IF fees > 0 /\ ~internal_transfer_ok(accs, distributor, Treasury, fees)
    THEN [unchanged EXCEPT !.status = "panic"]
    ELSE
    LET accs1 == IF fees > 0 THEN internal_transfer(accs, distributor, Treasury, fees) ELSE accs
        allocs1 == [allocs EXCEPT ![<<distributor, recipient>>] =
                        [@ EXCEPT !.share_price_num = price[1], !.share_price_denom = price[2]]]
    IN
    IF in_near
    THEN IF near_amount > attached_near
         THEN [unchanged EXCEPT !.status = "err", !.accs = accs1, !.fees = fees]
         ELSE [status |-> "ok", accs |-> accs1, allocs |-> allocs1,
               refund_amount |-> attached_near - near_amount,
               paid |-> <<[to |-> recipient, amount |-> near_amount]>>, fees |-> fees,
               shares_amount |-> shares_to_move]
    ELSE IF shares_to_move > Max(accs1[distributor], 0)
         THEN [unchanged EXCEPT !.status = "err", !.accs = accs1, !.fees = fees]
         ELSE
         LET accs2 == IF accs1[recipient] = Unregistered
                      THEN [accs1 EXCEPT ![recipient] = 0] ELSE accs1
         IN  IF ~internal_transfer_ok(accs2, distributor, recipient, shares_to_move)
             THEN [unchanged EXCEPT !.status = "panic"]
             ELSE [status |-> "ok",
                   accs |-> internal_transfer(accs2, distributor, recipient, shares_to_move),
                   allocs |-> allocs1, refund_amount |-> attached_near, paid |-> <<>>,
                   fees |-> fees, shares_amount |-> shares_to_move]

distribute_rewards_err(distributor, recipient, in_near, attached_near) ==
    IF ~check_not_paused THEN ERR_PAUSED
    ELSE IF ~check_whitelisted(distributor) THEN ERR_USER_NOT_WHITELISTED
    ELSE IF distributor \notin allocators THEN ERR_NO_ALLOCATIONS
    ELSE IF ~has_allocation(allocations, distributor, recipient)
         THEN ERR_NO_ALLOCATIONS_TO_RECIPIENT
    ELSE
    LET d == internal_distribute(accounts, allocations, distributor, recipient, share_price,
                                 in_near, attached_near)
    IN  IF d.status = "panic" THEN PANIC
        ELSE IF d.status = "err"
             THEN (IF in_near THEN ERR_INSUFFICIENT_NEAR_BALANCE
                   ELSE ERR_INSUFFICIENT_TRUNEAR_BALANCE)
        ELSE IF d.status = "ok" /\ get_total_allocated_panics(d.allocs, distributor) THEN PANIC
        ELSE OK

Refund(to, amount) == IF amount > 0 THEN <<[to |-> to, amount |-> amount]>> ELSE <<>>

\* mutant: the attached value is kept when there is nothing to distribute
distribute_rewards_mut(distributor, recipient, in_near, attached_near) ==
    LET d == internal_distribute(accounts, allocations, distributor, recipient, share_price,
                                 in_near, attached_near)
    IN
    /\ distribute_rewards_err(distributor, recipient, in_near, attached_near) = OK
    /\ accounts' = d.accs
    /\ allocations' = d.allocs
    /\ transfers' = IF d.status = "none" THEN <<>>
                    ELSE d.paid \o Refund(distributor, d.refund_amount)
    /\ UNCHANGED <<epoch, is_locked, adminVars, poolVars, stakeVars, requestVars,
                   total_supply, allocators, pending, unlock_used>>

distribute_rewards(distributor, recipient, in_near, attached_near) ==
    LET d == internal_distribute(accounts, allocations, distributor, recipient, share_price,
                                 in_near, attached_near)
    IN
    /\ distribute_rewards_err(distributor, recipient, in_near, attached_near) = OK
    /\ accounts' = d.accs
    /\ allocations' = d.allocs
    /\ transfers' = d.paid \o Refund(distributor, d.refund_amount)
    /\ UNCHANGED <<epoch, is_locked, adminVars, poolVars, stakeVars, requestVars,
                   total_supply, allocators, pending, unlock_used>>


\* get_rewards_distribution_amounts(distributor, None, in_near)
required_shares_panics(distributor) ==
    \E r \in recipients_of(allocations, distributor) :
        distribution_amount_panics(allocations[<<distributor, r>>], share_price)

required_shares_total(distributor) ==
    SumOver([r \in recipients_of(allocations, distributor) |->
                internal_calculate_distribution_amount(allocations[<<distributor, r>>],
                                                       share_price)],
            recipients_of(allocations, distributor))

get_rewards_distribution_amounts(distributor, in_near) ==
    LET required_shares == required_shares_total(distributor)
        fees == (required_shares * distribution_fee) \div FEE_PRECISION
    IN  IF in_near
        THEN <<fees, convert_to_assets(required_shares - fees, share_price, FALSE)>>
        ELSE <<required_shares, 0>>

\* the orders in which a HashMap may yield the recipients
Orders(S) == {o \in UNION {[1..n -> S] : n \in {Cardinality(S)}} :
                 \A i, j \in 1..Len(o) : i # j => o[i] # o[j]}

\* the for_each loop of distribute_all over the recipients in the given order
RECURSIVE distribute_loop(_, _, _, _, _, _, _, _)
distribute_loop(order, accs, allocs, distributor, price, in_near, refund_near_amount, paid) ==
    IF order = <<>>
    THEN [status |-> "ok", accs |-> accs, allocs |-> allocs,
          refund_amount |-> refund_near_amount, paid |-> paid]
    ELSE LET d == internal_distribute(accs, allocs, distributor, Head(order), price, in_near,
                                      refund_near_amount)
         IN  IF d.status = "panic"
             THEN [status |-> "panic", accs |-> accs, allocs |-> allocs,
                   refund_amount |-> refund_near_amount, paid |-> paid]
             ELSE distribute_loop(Tail(order), d.accs, d.allocs, distributor, price, in_near,
                                  d.refund_amount, paid \o d.paid)

distribute_all_err(distributor, in_near, attached_near, order) ==
    IF ~check_not_paused THEN ERR_PAUSED
    ELSE IF ~check_whitelisted(distributor) THEN ERR_USER_NOT_WHITELISTED
    ELSE IF distributor \notin allocators THEN ERR_NO_ALLOCATIONS
    ELSE IF required_shares_panics(distributor) THEN PANIC
    ELSE IF ft_balance_of(distributor) < get_rewards_distribution_amounts(distributor, in_near)[1]
         THEN ERR_INSUFFICIENT_TRUNEAR_BALANCE
    ELSE IF attached_near < get_rewards_distribution_amounts(distributor, in_near)[2]
         THEN ERR_INSUFFICIENT_NEAR_BALANCE
    ELSE IF get_total_allocated_panics(allocations, distributor) THEN PANIC
    ELSE IF distribute_loop(order, accounts, allocations, distributor, share_price, in_near,
                            attached_near, <<>>).status = "panic" THEN PANIC
    ELSE OK

distribute_all(distributor, in_near, attached_near, order) ==
    LET run == distribute_loop(order, accounts, allocations, distributor, share_price, in_near,
                               attached_near, <<>>)
    IN
    /\ order \in Orders(recipients_of(allocations, distributor))
    /\ distribute_all_err(distributor, in_near, attached_near, order) = OK
    /\ accounts' = run.accs
    /\ allocations' = run.allocs
    /\ transfers' = run.paid \o Refund(distributor, run.refund_amount)
    /\ UNCHANGED <<epoch, is_locked, adminVars, poolVars, stakeVars, requestVars,
                   total_supply, allocators, pending, unlock_used>>

(***************************************************************************)
(* Inputs                                                                  *)
(***************************************************************************)
Amounts == 1..MaxAmount
Deposits == 0..2
Nonces == 0..MaxNonce
Stakers == {"alice"}
RefreshAnswers == UNION {[1..n -> RefreshResults] : n \in 1..Cardinality(PoolIds)}

(***************************************************************************)
(* Spec: the settlement protocol (stake, unstake, withdraw, refresh and    *)
(* fee collection) with the fee setter, in behaviours where the owner      *)
(* neither pauses nor uses manual_unlock and calls arrive an unlock period *)
(* apart or within one epoch.                                              *)
(***************************************************************************)
Next ==
    \/ AdvanceEpochs(NUM_EPOCHS_TO_UNLOCK)
    \/ \E f \in FeeValues : set_fee(f)
    \/ update_total_staked
    \/ \E k \in 1..Len(pending), results \in RefreshAnswers : total_staked_callback(k, results)
    \/ \E c \in Stakers, a \in Amounts : stake(c, a)
    \/ \E c \in Stakers, p \in PoolIds, a \in Amounts : stake_to_specific_pool(c, p, a)
    \/ \E k \in 1..Len(pending), r \in CallResults : finalize_deposit_and_stake(k, r)
    \/ \E c \in Stakers, a \in Amounts, d \in Deposits : unstake(c, a, d)
    \/ \E c \in Stakers, p \in PoolIds, a \in Amounts, d \in Deposits :
          unstake_from_specific_pool(c, p, a, d)
    \/ \E k \in 1..Len(pending), r \in CallResults : finalize_unstake(k, r)
    \/ \E c \in Stakers, n \in Nonces : withdraw(c, n)
    \/ \E k \in 1..Len(pending), r \in CallResults : withdraw_callback(k, r)
    \/ collect_fees

Spec == Init /\ [][Next]_vars

(***************************************************************************)
(* SpecLock: the lock protocol with the pause switch and manual_unlock,    *)
(* epoch by epoch, one staker, one amount.                                 *)
(***************************************************************************)
NextLock ==
    \/ AdvanceEpoch
    \/ pause
    \/ unpause
    \/ manual_unlock
    \/ update_total_staked
    \/ \E k \in 1..Len(pending), results \in [1..1 -> {Failed, 3}] :
          total_staked_callback(k, results)
    \/ stake("alice", 2)
    \/ \E k \in 1..Len(pending), r \in {Err, 3} : finalize_deposit_and_stake(k, r)
    \/ unstake("alice", 2, 1)
    \/ \E k \in 1..Len(pending), r \in {Err, 3} : finalize_unstake(k, r)
    \/ \E n \in 1..MaxNonce : withdraw("alice", n)
    \/ \E k \in 1..Len(pending), r \in {Err, 0} : withdraw_callback(k, r)

SpecLock == Init /\ [][NextLock]_vars

(***************************************************************************)
(* SpecShares: every operation that moves shares, one staker, one          *)
(* allocation pair, epochs passing an unlock period at a time.             *)
(***************************************************************************)
SharePairs == {<<"alice", "bob">>}

NextShares ==
    \/ AdvanceEpochs(NUM_EPOCHS_TO_UNLOCK)
    \/ set_fee(2500)
    \/ update_total_staked
    \/ \E k \in 1..Len(pending), results \in [1..1 -> {Failed, 5}] :
          total_staked_callback(k, results)
    \/ stake("alice", 2)
    \/ \E k \in 1..Len(pending), r \in {Err, 5} : finalize_deposit_and_stake(k, r)
    \/ unstake("alice", 2, 1)
    \/ \E k \in 1..Len(pending), r \in {Err, 0} : finalize_unstake(k, r)
    \/ \E n \in 1..MaxNonce : withdraw("alice", n)
    \/ \E k \in 1..Len(pending), r \in {Err, 0} : withdraw_callback(k, r)
    \/ collect_fees
    \/ ft_transfer("alice", "bob", 1)
    \/ \E pair \in SharePairs : allocate(pair[1], pair[2], 2, 1)
    \/ \E pair \in SharePairs : deallocate(pair[1], pair[2], 2)
    \/ \E pair \in SharePairs, n \in BOOLEAN, d \in {0, 2} :
          distribute_rewards(pair[1], pair[2], n, d)
    \/ \E n \in BOOLEAN, d \in {0, 2} :
          \E order \in Orders(recipients_of(allocations, "alice")) :
             distribute_all("alice", n, d, order)

SpecShares == Init /\ [][NextShares]_vars

(***************************************************************************)
(* SpecWithdraw: withdrawal finalization from every combination of a       *)
(* matured request of alice, the delegate's unstaked value and the vault's *)
(* withdrawn_amount, the combinations in which withdrawn_amount falls      *)
(* short of the request included (finalize_withdraw's first branch).       *)
(***************************************************************************)
InitWithdraw ==
    /\ epoch = NUM_EPOCHS_TO_UNLOCK
    /\ is_paused = FALSE
    /\ is_locked = FALSE
    /\ fee = 0
    /\ distribution_fee = 0
    /\ min_deposit = ONE_NEAR
    /\ default_delegation_pool = DefaultPool
    /\ \E unstaked \in 0..MaxAmount :
          delegation_pools = [p \in PoolIds |->
              IF p = DefaultPool
              THEN [NewPool EXCEPT !.total_unstaked = unstaked, !.last_unstake = 0]
              ELSE NoPool]
    /\ delegation_pools_list = <<DefaultPool>>
    /\ total_staked = 0
    /\ total_staked_last_updated_at = NUM_EPOCHS_TO_UNLOCK
    /\ tax_exempt_stake = 0
    /\ withdrawn_amount \in 0..MaxAmount
    /\ unstake_nonce = 1
    /\ \E a \in Amounts :
          unstake_requests = [n \in 1..MaxNonce |->
              IF n = 1
              THEN [user |-> "alice", near_amount |-> a, pool_id |-> DefaultPool, epoch |-> 0]
              ELSE NoRequest]
    /\ accounts = [a \in AccountIds |-> IF a = Treasury THEN 0 ELSE Unregistered]
    /\ total_supply = 0
    /\ allocations = [pair \in Users \X AccountIds |-> NoAllocation]
    /\ allocators = {}
    /\ pending = <<>>
    /\ transfers = <<>>
    /\ unlock_used = FALSE

NextWithdraw ==
    \/ manual_unlock
    \/ \E c \in Users, n \in 1..MaxNonce : withdraw(c, n)
    \/ \E k \in 1..Len(pending), r \in CallResults : withdraw_callback(k, r)

SpecWithdraw == InitWithdraw /\ [][NextWithdraw]_vars

(***************************************************************************)
(* SpecRefresh: the refresh over two delegates, the second one added by    *)
(* the owner, with stakes and unstakes on either delegate in between.      *)
(***************************************************************************)
NextRefresh ==
    \/ AdvanceEpochs(NUM_EPOCHS_TO_UNLOCK)
    \/ \E p \in PoolIds : add_pool(p)
    \/ update_total_staked
    \/ \E k \in 1..Len(pending), results \in RefreshAnswers :
          total_staked_callback(k, results)
    \/ \E p \in PoolIds : stake_to_specific_pool("alice", p, 3)
    \/ \E k \in 1..Len(pending), r \in {Err, 3} : finalize_deposit_and_stake(k, r)
    \/ \E p \in PoolIds : unstake_from_specific_pool("alice", p, 1, 1)
    \/ \E k \in 1..Len(pending), r \in {Err, 0} : finalize_unstake(k, r)

SpecRefresh == Init /\ [][NextRefresh]_vars

(***************************************************************************)
(* SpecFees: stakes, refreshes that report rewards, and fee collection     *)
(* under two fee rates; nothing is unstaked.                               *)
(***************************************************************************)
NextFees ==
    \/ AdvanceEpochs(NUM_EPOCHS_TO_UNLOCK)
    \/ \E f \in {2500, 7500} : set_fee(f)
    \/ update_total_staked
    \/ \E k \in 1..Len(pending), results \in [1..1 -> RefreshResults] :
          total_staked_callback(k, results)
    \/ \E a \in Amounts : stake("alice", a)
    \/ \E k \in 1..Len(pending), r \in CallResults : finalize_deposit_and_stake(k, r)
    \/ collect_fees

SpecFees == Init /\ [][NextFees]_vars

(***************************************************************************)
(* SpecPrice: the price engine over every combination of total_staked,     *)
(* share supply, tax_exempt_stake and fee within the bounds, held by one   *)
(* staker; the fee setter and fee collection move between prices.          *)
(***************************************************************************)
PriceFees == {0, 2500, 7500}

InitPrice ==
    /\ epoch = 0
    /\ is_paused = FALSE
    /\ is_locked = FALSE
    /\ fee \in PriceFees
    /\ distribution_fee = 0
    /\ min_deposit = ONE_NEAR
    /\ default_delegation_pool = DefaultPool
    /\ total_staked \in 0..MaxTotal
    /\ delegation_pools = [p \in PoolIds |->
          IF p = DefaultPool THEN [NewPool EXCEPT !.total_staked = total_staked] ELSE NoPool]
    /\ delegation_pools_list = <<DefaultPool>>
    /\ total_staked_last_updated_at = 0
    /\ tax_exempt_stake \in 0..MaxTotal
    /\ withdrawn_amount = 0
    /\ unstake_nonce = 0
    /\ unstake_requests = [n \in 1..MaxNonce |-> NoRequest]
    /\ total_supply \in 0..MaxSupply
    /\ accounts = [a \in AccountIds |->
          IF a = Treasury THEN 0
          ELSE IF a = "alice" /\ total_supply > 0 THEN total_supply
          ELSE Unregistered]
    /\ allocations = [pair \in Users \X AccountIds |-> NoAllocation]
    /\ allocators = {}
    /\ pending = <<>>
    /\ transfers = <<>>
    /\ unlock_used = FALSE

NextPrice ==
    \/ \E f \in PriceFees : set_fee(f)
    \/ collect_fees

SpecPrice == InitPrice /\ [][NextPrice]_vars

(***************************************************************************)
(* SpecUnstake: one staker staking, unstaking and withdrawing any amount   *)
(* on the default delegate while the owner disables and enables it, with   *)
(* a refresh after every unlock period.                                    *)
(***************************************************************************)
MaxRequests == 2

\* the state after construction, with room for MaxRequests unstake requests
InitRequests ==
    /\ epoch = 0
    /\ is_paused = FALSE
    /\ is_locked = FALSE
    /\ fee = 0
    /\ distribution_fee = 0
    /\ min_deposit = ONE_NEAR
    /\ default_delegation_pool = DefaultPool
    /\ delegation_pools = [p \in PoolIds |-> IF p = DefaultPool THEN NewPool ELSE NoPool]
    /\ delegation_pools_list = <<DefaultPool>>
    /\ total_staked = 0
    /\ total_staked_last_updated_at = 0
    /\ tax_exempt_stake = 0
    /\ withdrawn_amount = 0
    /\ unstake_nonce = 0
    /\ unstake_requests = [n \in 1..MaxRequests |-> NoRequest]
    /\ accounts = [a \in AccountIds |-> IF a = Treasury THEN 0 ELSE Unregistered]
    /\ total_supply = 0
    /\ allocations = [pair \in Users \X AccountIds |-> NoAllocation]
    /\ allocators = {}
    /\ pending = <<>>
    /\ transfers = <<>>
    /\ unlock_used = FALSE

NextUnstake ==
    \/ AdvanceEpochs(NUM_EPOCHS_TO_UNLOCK)
    \/ disable_pool(DefaultPool)
    \/ enable_pool(DefaultPool)
    \/ update_total_staked
    \/ \E k \in 1..Len(pending), results \in [1..1 -> {Failed, 3, 5}] :
          total_staked_callback(k, results)
    \/ \E a \in Amounts : stake("alice", a)
    \/ \E a \in Amounts : stake_to_specific_pool("alice", DefaultPool, a)
    \/ \E k \in 1..Len(pending), r \in {Err, 3} : finalize_deposit_and_stake(k, r)
    \/ \E a \in Amounts, d \in {0, 1} : unstake("alice", a, d)
    \/ \E a \in Amounts : unstake_from_specific_pool("alice", DefaultPool, a, 1)
    \/ \E k \in 1..Len(pending), r \in {Err, 0} : finalize_unstake(k, r)
    \/ \E n \in DOMAIN unstake_requests : withdraw("alice", n)
    \/ \E k \in 1..Len(pending), r \in {Err, 0} : withdraw_callback(k, r)

SpecUnstake == InitRequests /\ [][NextUnstake]_vars

(***************************************************************************)
(* SpecDistribute: one allocator with up to two recipients, allocations    *)
(* made and topped up at prices a refresh moves, and distributions with    *)
(* and without a distribution fee.                                         *)
(***************************************************************************)
DistributionFees == {0, 5000}
Recipients == AccountIds \ {"alice"}

NextDistribute ==
    \/ AdvanceEpochs(NUM_EPOCHS_TO_UNLOCK)
    \/ \E f \in DistributionFees : set_distribution_fee(f)
    \/ update_total_staked
    \/ \E k \in 1..Len(pending), results \in [1..1 -> {Failed, 4, 5}] :
          total_staked_callback(k, results)
    \/ stake("alice", 3)
    \/ \E k \in 1..Len(pending), r \in {Err, 3} : finalize_deposit_and_stake(k, r)
    \/ \E r \in Recipients, a \in Amounts : allocate("alice", r, a, 1)
    \/ \E r \in Recipients, n \in BOOLEAN, d \in Deposits :
          distribute_rewards("alice", r, n, d)
    \/ \E n \in BOOLEAN, d \in Deposits :
          \E order \in Orders(recipients_of(allocations, "alice")) :
             distribute_all("alice", n, d, order)

SpecDistribute == Init /\ [][NextDistribute]_vars

(***************************************************************************)
(* SpecAllocate: one allocation made, topped up and reduced while stakes   *)
(* and refreshes move the share price.                                     *)
(***************************************************************************)
NextAllocate ==
    \/ update_total_staked
    \/ \E k \in 1..Len(pending), results \in [1..1 -> RefreshResults] :
          total_staked_callback(k, results)
    \/ \E a \in Amounts : stake("alice", a)
    \/ \E k \in 1..Len(pending), r \in CallResults : finalize_deposit_and_stake(k, r)
    \/ \E r \in Users, a \in Amounts, d \in Deposits :
          allocate_capped("alice", r, a, d, MaxTopUp)
    \/ \E a \in Amounts : deallocate("alice", "bob", a)

SpecAllocate == Init /\ [][NextAllocate]_vars

(***************************************************************************)
(* SpecOverride: unstakes whose continuations are overtaken after the      *)
(* owner has cleared the lock with manual_unlock.                          *)
(***************************************************************************)
NextOverride ==
    \/ AdvanceEpoch
    \/ manual_unlock
    \/ update_total_staked
    \/ \E k \in 1..Len(pending), results \in [1..1 -> {Failed, 5}] :
          total_staked_callback(k, results)
    \/ stake("alice", 2)
    \/ \E k \in 1..Len(pending), r \in {Err, 3} : finalize_deposit_and_stake(k, r)
    \/ \E a \in 1..2 : unstake("alice", a, 1)
    \/ \E k \in 1..Len(pending), r \in {Err, 3} : finalize_unstake(k, r)

SpecOverride == InitRequests /\ [][NextOverride]_vars

(***************************************************************************)
(* SpecDistributeAll: one allocator with allocations of one and two base   *)
(* units, a rise of the price, and distributions under a distribution fee  *)
(* that takes whole shares and rounds differently per recipient and on the *)
(* sum.                                                                    *)
(***************************************************************************)
NextDistributeAll ==
    \/ \E f \in {5000, 7500} : set_distribution_fee(f)
    \/ update_total_staked
    \/ \E k \in 1..Len(pending), results \in [1..1 -> {5}] :
          total_staked_callback(k, results)
    \/ stake("alice", 3)
    \/ \E k \in 1..Len(pending), r \in {3} : finalize_deposit_and_stake(k, r)
    \/ \E r \in Recipients, a \in {ONE_NEAR, 2 * ONE_NEAR} :
          allocate_capped("alice", r, a, 1, MaxTopUp)
    \/ \E r \in Recipients, n \in BOOLEAN, d \in Deposits :
          distribute_rewards("alice", r, n, d)
    \/ \E n \in BOOLEAN, d \in Deposits :
          \E order \in Orders(recipients_of(allocations, "alice")) :
             distribute_all("alice", n, d, order)

SpecDistributeAll == Init /\ [][NextDistributeAll]_vars

(***************************************************************************)
(* Properties                                                              *)
(***************************************************************************)
\* what each lock-guarded entry point answers to each call in the current state
LockGuardedErrs ==
    {stake_err(c, default_delegation_pool, a) : c \in AccountIds, a \in Amounts}
    \cup {stake_err(c, pl[1], pl[2]) : c \in AccountIds, pl \in PoolIds \X Amounts}
    \cup {unstake_err(c, default_delegation_pool, ad[1], ad[2], FALSE) :
            c \in AccountIds, ad \in Amounts \X Deposits}
    \cup UNION {{unstake_err(c, pl, ad[1], ad[2], TRUE) : c \in AccountIds, pl \in PoolIds} :
            ad \in Amounts \X Deposits}
    \cup {withdraw_err(c, n) : c \in AccountIds, n \in Nonces}
    \cup {update_total_staked_err}

ContinuationStep ==
    \E k \in 1..Len(pending) :
        \/ \E r \in CallResults :
              \/ finalize_deposit_and_stake(k, r)
              \/ finalize_unstake(k, r)
              \/ withdraw_callback(k, r)
        \/ \E results \in RefreshAnswers : total_staked_callback(k, results)

\* C3: every continuation (finalize_deposit_and_stake, finalize_unstake,
\* withdraw_callback, total_staked_callback) leaves the lock cleared, whatever
\* the delegate returned.
C3_ContinuationClearsLock ==
    [][ContinuationStep => ~is_locked']_vars

\* the continuation k of an unstake runs on the state its entry point left
Undisturbed(k) ==
    /\ pending[k].kind = "unstake"
    /\ Snapshot(pending[k].caller, pending[k].pool_id) = pending[k].after

\* C4: when an unstake of amount A completes successfully, the vault's
\* total_staked and the delegate's total_staked are each exactly A less than
\* before the unstake was requested.
C4_UnstakeDecreasesTotalStakedByAmount ==
    [][\A k \in 1..Len(pending), r \in RemoteBalances :
          (Undisturbed(k) /\ finalize_unstake(k, r) /\ unstake_nonce' = unstake_nonce + 1)
          => /\ total_staked' = pending[k].before.total_staked - pending[k].amount
             /\ delegation_pools'[pending[k].pool_id].total_staked
                    = pending[k].before.pool.total_staked - pending[k].amount]_vars

\* C5: when the remote unstake call fails, the continuation restores the
\* caller's share balance, total_supply, total_staked, tax_exempt_stake, the
\* delegate record, unstake_nonce and the unstake requests to their values
\* from before the request, and refunds the attached value to the caller.
C5_FailedUnstakeRolledBack ==
    [][\A k \in 1..Len(pending), u \in AccountIds, p \in PoolIds :
          (/\ pending[k].caller = u
           /\ pending[k].pool_id = p
           /\ Undisturbed(k)
           /\ finalize_unstake(k, Err))
          => /\ Snapshot(u, p)' = pending[k].before
             /\ transfers' = <<[to |-> u, amount |-> pending[k].attached_near]>>]_vars

\* C6: the balances of all share accounts add up to total_supply.
C6_SharesConserved ==
    SumOver([a \in AccountIds |-> ft_balance_of(a)], AccountIds) = total_supply

\* shares have been staked, distributed to a recipient, collected as fees and
\* unstaked
C6_Witness ==
    /\ ft_balance_of("bob") > 0
    /\ ft_balance_of(Treasury) > 0
    /\ ft_balance_of("alice") > 0
    /\ unstake_nonce > 0

\* the continuation k is a stake whose remote call succeeded and raised the
\* delegate's balance, answered with r, and the continuation ran to its end
StakeSucceeds(k, r) ==
    /\ r # Err
    /\ r - delegation_pools[pending[k].pool_id].total_unstaked
         > delegation_pools[pending[k].pool_id].total_staked
    /\ finalize_deposit_and_stake(k, r)
    /\ ~is_locked'

\* C7: when a stake of amount A succeeds, total_staked, tax_exempt_stake and
\* the delegate's total_staked each grow by exactly A, and the caller is
\* minted the share equivalent of A, rounded down, at the price of the state
\* before these increases; with zero share supply exactly A shares are minted.
C7_StakeCreditsIntendedAmount ==
    [][\A k \in 1..Len(pending), r \in RemoteBalances, u \in AccountIds, p \in PoolIds :
          (pending[k].caller = u /\ pending[k].pool_id = p /\ StakeSucceeds(k, r)) =>
            LET amount == pending[k].amount
                price == internal_share_price(total_staked, total_supply, tax_exempt_stake, fee)
                divisor == price[1] \div SHARE_PRICE_SCALING_FACTOR
                minted == total_supply' - total_supply
            IN  /\ total_staked' = total_staked + amount
                /\ tax_exempt_stake' = tax_exempt_stake + amount
                /\ delegation_pools'[p].total_staked = delegation_pools[p].total_staked + amount
                /\ ft_balance_of(u)' = ft_balance_of(u) + minted
                /\ minted * divisor <= amount * price[2]
                /\ amount * price[2] < (minted + 1) * divisor
                /\ (total_supply = 0 => minted = amount)]_vars

\* a stake of 2 at a share price of 3/2 has minted one share
C7_Witness ==
    /\ total_staked = 5
    /\ tax_exempt_stake = 4
    /\ total_supply = 3
    /\ ft_balance_of("alice") = 3
    /\ delegation_pools[DefaultPool].total_staked = 5
    /\ pending = <<>>
    /\ ~is_locked

\* C8: when the remote deposit-and-stake call fails, the continuation refunds
\* exactly the attached amount to the caller, mints no shares and leaves
\* total_staked, tax_exempt_stake, total_supply and the delegate record as
\* they were.
C8_FailedStakeRefunded ==
    [][\A k \in 1..Len(pending) :
          finalize_deposit_and_stake(k, Err) =>
            /\ transfers' = <<[to |-> pending[k].caller, amount |-> pending[k].amount]>>
            /\ UNCHANGED <<accounts, total_supply, total_staked, tax_exempt_stake,
                           delegation_pools>>]_vars

\* the first stake failed remotely and its amount went back to the caller
C8_Witness ==
    /\ transfers = <<[to |-> "alice", amount |-> 3]>>
    /\ total_supply = 0
    /\ total_staked = 0
    /\ pending = <<>>
    /\ ~is_locked

\* what each entry point that needs the vault in sync answers to each call
InSyncGuardedErrs ==
    {stake_err(c, default_delegation_pool, a) : c \in AccountIds, a \in Amounts}
    \cup {stake_err(c, pl[1], pl[2]) : c \in AccountIds, pl \in PoolIds \X Amounts}
    \cup {unstake_err(c, default_delegation_pool, ad[1], ad[2], FALSE) :
            c \in AccountIds, ad \in Amounts \X Deposits}
    \cup UNION {{unstake_err(c, pl, ad[1], ad[2], TRUE) : c \in AccountIds, pl \in PoolIds} :
            ad \in Amounts \X Deposits}
    \cup {collect_fees_err}

\* a step of an entry point that needs the vault in sync
InSyncGuardedStep ==
    \/ \E c \in AccountIds, a \in Amounts :
          \/ stake(c, a)
          \/ \E p \in PoolIds : stake_to_specific_pool(c, p, a)
          \/ \E d \in Deposits :
                \/ unstake(c, a, d)
                \/ \E p \in PoolIds : unstake_from_specific_pool(c, p, a, d)
    \/ collect_fees

\* C9: when total_staked_last_updated_at differs from the current epoch,
\* every call of stake, stake_to_specific_pool, unstake,
\* unstake_from_specific_pool and collect_fees is rejected: none of them
\* takes a step, so no remote call is scheduled, the lock is not taken and
\* nothing changes.
C9_OutOfSyncCallsRejected ==
    /\ [](total_staked_last_updated_at # epoch => \A e \in InSyncGuardedErrs : e # OK)
    /\ [][total_staked_last_updated_at # epoch => ~InSyncGuardedStep]_vars

\* out of sync with nothing else in the way of a stake, an unstake or a fee
\* collection
C9_Witness ==
    /\ total_staked_last_updated_at # epoch
    /\ ~is_locked
    /\ ~is_paused
    /\ ft_balance_of("alice") > 0
    /\ total_staked > tax_exempt_stake
    /\ fee > 0

\* a step of distribute_rewards or distribute_all
DistributeStep ==
    \/ \E pair \in SharePairs, n \in BOOLEAN, d \in {0, 2} :
          distribute_rewards(pair[1], pair[2], n, d)
    \/ \E c \in Users, n \in BOOLEAN, d \in {0, 2} :
          \E order \in Orders(recipients_of(allocations, c)) : distribute_all(c, n, d, order)

\* C10: distribute_rewards and distribute_all called when the vault is not
\* in sync move no shares, pay no value and change no allocation.
C10_OutOfSyncDistributionMovesNothing ==
    [][(total_staked_last_updated_at # epoch /\ DistributeStep)
          => /\ UNCHANGED <<accounts, allocations>>
             /\ \A i \in 1..Len(transfers') : transfers'[i].to \notin {"bob", Treasury}]_vars

\* C11: distribute_rewards and distribute_all called while the lock is set
\* (a settlement operation is in flight) move no shares, pay no value and
\* change no allocation.
C11_LockedDistributionMovesNothing ==
    [][(is_locked /\ DistributeStep)
          => /\ UNCHANGED <<accounts, allocations>>
             /\ \A i \in 1..Len(transfers') : transfers'[i].to \notin {"bob", Treasury}]_vars

\* the delegate's last-unstake epoch is set and the current epoch lies
\* strictly between it and the end of the unlock period
InsideUnlockPeriod(p) ==
    LET E == delegation_pools[p].last_unstake IN
    E # NoEpoch /\ E < epoch /\ epoch < E + NUM_EPOCHS_TO_UNLOCK

\* what unstake and unstake_from_specific_pool answer for delegate p
UnstakeErrsOn(p) ==
    {unstake_err(c, p, ad[1], ad[2], TRUE) : c \in AccountIds, ad \in Amounts \X Deposits}
    \cup (IF p = default_delegation_pool
          THEN {unstake_err(c, p, ad[1], ad[2], FALSE) : c \in AccountIds, ad \in Amounts \X Deposits}
          ELSE {})

\* a step of unstake or unstake_from_specific_pool on delegate p
UnstakeStepOn(p) ==
    \E c \in AccountIds, a \in Amounts, d \in Deposits :
        \/ p = default_delegation_pool /\ unstake(c, a, d)
        \/ unstake_from_specific_pool(c, p, a, d)

\* C12: an unstake on a delegate whose last-unstake epoch E is set is
\* accepted only in epoch E or from epoch E + 4 on; in epochs E+1 .. E+3 it
\* is rejected and changes nothing.
C12_UnstakeRejectedInsideUnlockPeriod ==
    /\ [](\A p \in PoolIds : InsideUnlockPeriod(p) => \A e \in UnstakeErrsOn(p) : e # OK)
    /\ [][\A p \in PoolIds : InsideUnlockPeriod(p) => ~UnstakeStepOn(p)]_vars

\* alice's unstake of 2 is refused only because the delegate's unlock period
\* has not passed
C12_Witness ==
    /\ InsideUnlockPeriod("pool1")
    /\ unstake_err("alice", "pool1", 2, 1, FALSE) = ERR_UNSTAKE_LOCKED

\* the request stored under nonce n exists, was created by c and has matured
Redeemable(c, n) ==
    /\ n \in DOMAIN unstake_requests
    /\ unstake_requests[n] # NoRequest
    /\ unstake_requests[n].user = c
    /\ unstake_requests[n].epoch + NUM_EPOCHS_TO_UNLOCK <= epoch

\* C13: withdraw(nonce) is rejected, changing nothing and paying nothing,
\* unless the nonce exists, the caller created that request and the request's
\* epoch + 4 is at most the current epoch.
C13_WithdrawOnlyByOwnerWhenMatured ==
    /\ [](\A c \in AccountIds, n \in Nonces : ~Redeemable(c, n) => withdraw_err(c, n) # OK)
    /\ [][\A c \in AccountIds, n \in Nonces : ~Redeemable(c, n) => ~withdraw(c, n)]_vars

\* alice's request has matured: bob is refused as a stranger to it, and a
\* nonce that was never issued is refused as invalid
C13_Witness ==
    /\ Redeemable("alice", 1)
    /\ withdraw_err("alice", 1) = OK
    /\ withdraw_err("bob", 1) = ERR_SENDER_MUST_BE_RECEIVER
    /\ withdraw_err("alice", 0) = ERR_INVALID_NONCE

\* a step of withdraw or of its continuation
WithdrawStep ==
    \/ \E c \in AccountIds, n \in Nonces : withdraw(c, n)
    \/ \E k \in 1..Len(pending), r \in CallResults : withdraw_callback(k, r)

\* nonce n was issued and its request has been deleted
Redeemed(n) == n \in 1..unstake_nonce /\ unstake_requests[n] = NoRequest

\* this step deletes the request of nonce n and pays its owner for it
PaysAndDeletes(n) ==
    /\ unstake_requests[n] # NoRequest
    /\ unstake_requests' = [unstake_requests EXCEPT ![n] = NoRequest]
    /\ transfers' = <<[to |-> unstake_requests[n].user,
                       amount |-> unstake_requests[n].near_amount + StorageCost]>>

\* C14: a nonce that was withdrawn is refused as an invalid nonce from then
\* on; a request once deleted never comes back, and a withdrawal pays only
\* in the step that deletes the request it pays for, so each request is
\* deleted at most once and paid for at most once.
C14_WithdrawAtMostOnce ==
    /\ [](\A n \in 1..MaxNonce : Redeemed(n) =>
             \A c \in AccountIds :
                /\ withdraw_err(c, n) # OK
                /\ (~is_paused /\ ~is_locked /\ c \in Whitelisted)
                      => withdraw_err(c, n) = ERR_INVALID_NONCE)
    /\ [][\A n \in 1..MaxNonce : Redeemed(n) => Redeemed(n)']_vars
    /\ [][(WithdrawStep /\ (   (transfers' # <<>> /\ transfers' # transfers)
                              \/ unstake_requests' # unstake_requests))
             => \E n \in 1..MaxNonce : PaysAndDeletes(n)]_vars

\* alice has just been paid for nonce 1 and asks for it again
C14_Witness ==
    /\ Redeemed(1)
    /\ transfers # <<>>
    /\ transfers[1].to = "alice"
    /\ withdrawn_amount = 0
    /\ withdraw_err("alice", 1) = ERR_INVALID_NONCE

\* C15: when the delegate's withdraw call fails, the continuation pays
\* nothing, keeps the request, leaves withdrawn_amount and the delegates'
\* records as they were and clears the lock, so the owner can withdraw the
\* same nonce again.
C15_FailedWithdrawKeepsRequest ==
    [][\A k \in 1..Len(pending), u \in AccountIds, n \in 1..MaxNonce :
          (/\ pending[k].kind = "withdraw"
           /\ pending[k].caller = u
           /\ pending[k].unstake_nonce = n
           /\ withdraw_callback(k, Err))
          => /\ transfers' = <<>>
             /\ UNCHANGED <<unstake_requests, withdrawn_amount, delegation_pools>>
             /\ ~is_locked'
             /\ (unstake_requests[n] # NoRequest /\ ~is_paused) => (withdraw_err(u, n) = OK)']_vars

\* alice's withdrawal of nonce 1 is in flight: the delegate has yet to answer
C15_Witness ==
    /\ Len(pending) = 1
    /\ pending[1].kind = "withdraw"
    /\ pending[1].caller = "alice"
    /\ pending[1].unstake_nonce = 1
    /\ unstake_requests[1] # NoRequest
    /\ delegation_pools["pool1"].total_unstaked > 0

\* C16: when withdrawal finalization finds withdrawn_amount smaller than
\* the requested value (in the continuation, after the delegate's value was
\* added, or in withdraw itself when nothing is left on the delegate), it
\* pays nothing, does not debit withdrawn_amount and keeps the request; the
\* lock is clear and the owner's next withdraw of the nonce is accepted, and
\* it pays as soon as withdrawn_amount covers the request.
C16_ShortfallKeepsRequest ==
    /\ [][\A k \in 1..Len(pending), u \in AccountIds, n \in 1..MaxNonce, r \in RemoteBalances :
             (/\ pending[k].kind = "withdraw"
              /\ pending[k].caller = u
              /\ pending[k].unstake_nonce = n
              /\ withdrawn_amount + pending[k].amount < pending[k].request_amount
              /\ withdraw_callback(k, r))
             => /\ transfers' = <<>>
                /\ unstake_requests' = unstake_requests
                /\ withdrawn_amount' = withdrawn_amount + pending[k].amount
                /\ ~is_locked'
                /\ (unstake_requests[n] # NoRequest /\ ~is_paused)
                      => (withdraw_err(u, n) = OK)']_vars
    /\ [][\A u \in AccountIds, n \in 1..MaxNonce :
             (withdraw(u, n) /\ ~pool_has_withdrawable(unstake_requests[n].pool_id))
             => IF withdrawn_amount < unstake_requests[n].near_amount
                THEN /\ transfers' = <<>>
                     /\ UNCHANGED <<unstake_requests, withdrawn_amount>>
                     /\ ~is_locked'
                     /\ (withdraw_err(u, n) = OK)'
                ELSE /\ PaysAndDeletes(n)
                     /\ withdrawn_amount' = withdrawn_amount - unstake_requests[n].near_amount]_vars

\* alice's withdrawal is in flight and what the delegate holds will not
\* cover her request
C16_Witness ==
    /\ Len(pending) = 1
    /\ pending[1].kind = "withdraw"
    /\ pending[1].unstake_nonce = 1
    /\ unstake_requests[1] # NoRequest
    /\ withdrawn_amount + pending[1].amount < pending[1].request_amount

\* C17: when any delegate's query fails or returns data that does not
\* parse, the refresh leaves total_staked, every delegate's record and
\* total_staked_last_updated_at exactly as they were.
C17_FailedRefreshChangesNothing ==
    [][\A k \in 1..Len(pending), results \in RefreshAnswers :
          (/\ total_staked_callback(k, results)
           /\ \E i \in 1..Len(results) : results[i] \in {Failed, Unparsable})
          => UNCHANGED <<total_staked, delegation_pools, total_staked_last_updated_at>>]_vars

\* a refresh over two delegates is in flight in an epoch the vault has not
\* been refreshed in, with stake on the books
C17_Witness ==
    /\ Len(pending) = 1
    /\ pending[1].kind = "refresh"
    /\ pending[1].npromises = 2
    /\ total_staked > 0
    /\ total_staked_last_updated_at # epoch

\* C18: on a refresh in which every delegate's query succeeded, each
\* delegate's total_staked becomes its queried balance minus its
\* total_unstaked, the vault's total_staked becomes the sum of those values
\* and total_staked_last_updated_at becomes the current epoch.
C18_RefreshSetsTotals ==
    [][\A k \in 1..Len(pending), results \in RefreshAnswers :
          (/\ total_staked_callback(k, results)
           /\ Len(results) = Len(delegation_pools_list)
           /\ \A i \in 1..Len(results) : results[i] \in RemoteBalances)
          => /\ \A i \in 1..Len(results) :
                   LET p == delegation_pools_list[i] IN
                   delegation_pools'[p].total_staked =
                       results[i] - delegation_pools[p].total_unstaked
             /\ total_staked' =
                   SumOver([i \in 1..Len(results) |->
                              results[i] - delegation_pools[delegation_pools_list[i]].total_unstaked],
                           1..Len(results))
             /\ total_staked_last_updated_at' = epoch]_vars

\* a price as a ratio over FEE_PRECISION, in lowest scale: the numerator of
\* a price is a multiple of SHARE_PRICE_SCALING_FACTOR, and its denominator
\* is 1 (no shares) or a multiple of FEE_PRECISION
PriceRatio(price) ==
    IF price[2] = 1
    THEN <<(price[1] \div SHARE_PRICE_SCALING_FACTOR) * FEE_PRECISION, 1>>
    ELSE <<price[1] \div SHARE_PRICE_SCALING_FACTOR, price[2] \div FEE_PRECISION>>

\* C19: for total_staked >= tax_exempt_stake (and shares outstanding), the
\* share price right after collect_fees equals, as a ratio, the share price
\* right before it.
C19_CollectFeesKeepsPrice ==
    [][(collect_fees /\ total_staked >= tax_exempt_stake /\ total_supply > 0)
          => LET before == PriceRatio(share_price)
                 after == PriceRatio(internal_share_price(total_staked', total_supply',
                                                          tax_exempt_stake', fee'))
             IN  before[1] * after[2] = after[1] * before[2]]_vars

\* value to shares rounding down and back to value rounding up
ValueRoundTrip(v, price) ==
    convert_to_assets(convert_to_shares(v, price, FALSE), price, TRUE)

\* shares to value rounding down and back to shares rounding up
SharesRoundTrip(sh, price) ==
    convert_to_shares(convert_to_assets(sh, price, FALSE), price, TRUE)

\* C20 as stated: at every price, a value converted to shares rounding down
\* and back rounding up is at least the value, and likewise shares converted
\* to value and back.
C20_RoundTripAtLeast ==
    ~convert_to_shares_panics(share_price) =>
        \A v \in 0..MaxTotal :
            /\ ValueRoundTrip(v, share_price) >= v
            /\ SharesRoundTrip(v, share_price) >= v

\* C20: at every price, a value converted to shares rounding down and back
\* rounding up is at most the value, and likewise shares converted to value
\* and back: the caller never gains from the round trip.
C20_RoundTripAtMost ==
    ~convert_to_shares_panics(share_price) =>
        \A v \in 0..MaxTotal :
            /\ ValueRoundTrip(v, share_price) <= v
            /\ SharesRoundTrip(v, share_price) <= v

\* a price above 1 with a fee baked in, at which a value loses on the round
\* trip while shares come back whole
C20_Witness ==
    /\ total_supply > 0
    /\ fee > 0
    /\ total_staked > tax_exempt_stake
    /\ ~convert_to_shares_panics(share_price)
    /\ \E v \in 1..MaxTotal : ValueRoundTrip(v, share_price) < v
    /\ \A v \in 1..MaxTotal : SharesRoundTrip(v, share_price) <= v

\* price p is at most price q, compared as ratios
PriceLeq(p, q) ==
    PriceRatio(p)[1] * PriceRatio(q)[2] <= PriceRatio(q)[1] * PriceRatio(p)[2]

\* C21: for a fixed share supply above zero (and any tax_exempt_stake), the
\* share price does not decrease when total_staked grows and does not
\* increase when the fee grows.
C21_PriceMonotone ==
    total_supply > 0 =>
        /\ \A t1, t2 \in 0..MaxTotal :
              t1 <= t2 =>
                PriceLeq(internal_share_price(t1, total_supply, tax_exempt_stake, fee),
                         internal_share_price(t2, total_supply, tax_exempt_stake, fee))
        /\ \A f1, f2 \in PriceFees :
              f1 <= f2 =>
                PriceLeq(internal_share_price(total_staked, total_supply, tax_exempt_stake, f2),
                         internal_share_price(total_staked, total_supply, tax_exempt_stake, f1))

\* shares outstanding, rewards not yet taxed and a fee in force: one more
\* unit staked moves the price up and the fee holds it below the fee-less price
C21_Witness ==
    /\ total_supply > 0
    /\ fee > 0
    /\ total_staked > tax_exempt_stake
    /\ total_staked < MaxTotal
    /\ ~PriceLeq(internal_share_price(total_staked + 1, total_supply, tax_exempt_stake, fee),
                 share_price)
    /\ ~PriceLeq(internal_share_price(total_staked, total_supply, tax_exempt_stake, 0),
                 share_price)

\* the amount C22 says is unstaked when c asks for a
ClampedAmount(c, a) ==
    IF max_withdraw(c) - a < ONE_NEAR THEN max_withdraw(c) ELSE a

\* C22: an unstake of more than the caller's maximum withdrawable value is
\* rejected; an accepted unstake that reaches the delegate is for the
\* requested amount, or for the caller's whole maximum withdrawable value
\* when less than ONE_NEAR would be left.
C22_UnstakeClampsToMaxWithdraw ==
    /\ [](\A c \in AccountIds, a \in Amounts, d \in Deposits, p \in PoolIds :
             a > max_withdraw(c) =>
                /\ unstake_err(c, default_delegation_pool, a, d, FALSE) # OK
                /\ unstake_err(c, p, a, d, TRUE) # OK)
    /\ [][(Len(pending') > Len(pending) /\ pending'[Len(pending')].kind = "unstake") =>
             \A c \in Stakers, a \in Amounts, d \in Deposits, p \in PoolIds :
                (unstake(c, a, d) \/ unstake_from_specific_pool(c, p, a, d))
                => /\ a <= max_withdraw(c)
                   /\ pending'[Len(pending')].amount = ClampedAmount(c, a)
                   /\ total_staked' = total_staked - ClampedAmount(c, a)]_vars

\* alice may withdraw 3 and asks for 2: less than ONE_NEAR would be left
C22_Witness ==
    /\ max_withdraw("alice") = 3
    /\ ft_balance_of("alice") = 3
    /\ unstake_err("alice", "pool1", 2, 1, FALSE) = OK
    /\ ClampedAmount("alice", 2) = 3

\* the request a successful unstake with continuation record c must leave
RequestOf(c) ==
    [user |-> c.caller, near_amount |-> c.amount, pool_id |-> c.pool_id,
     epoch |-> c.unstake_epoch]

\* a step that leaves the nonce and every stored request as they were
NoNewRequest ==
    /\ unstake_nonce' = unstake_nonce
    /\ \A n \in DOMAIN unstake_requests :
          unstake_requests'[n] # unstake_requests[n] => unstake_requests'[n] = NoRequest

\* C23: an unstake whose delegate call succeeded creates exactly one request,
\* keyed by the previous unstake_nonce plus one, recording caller, delegate,
\* amount and the epoch of the request; unstake_nonce never decreases and no
\* key is written twice; a failed or rejected unstake creates no request and
\* leaves unstake_nonce as it was.
C23_UnstakeCreatesOneRequest ==
    /\ [][unstake_nonce' >= unstake_nonce]_vars
    /\ [][\A k \in 1..Len(pending), r \in CallResults :
             (k \in PendingOf("unstake") /\ finalize_unstake(k, r)) =>
                IF r = Err THEN NoNewRequest
                ELSE /\ unstake_nonce' = unstake_nonce + 1
                     /\ \A n \in DOMAIN unstake_requests :
                           n > unstake_nonce => unstake_requests[n] = NoRequest
                     /\ unstake_requests' =
                          [unstake_requests EXCEPT ![unstake_nonce'] = RequestOf(pending[k])]]_vars
    /\ [][(\A k \in 1..Len(pending), r \in CallResults :
               ~(k \in PendingOf("unstake") /\ finalize_unstake(k, r)))
            => NoNewRequest]_vars

\* the owner switches delegate p between enabled and disabled
TogglePool(p) == disable_pool(p) \/ enable_pool(p)

\* C24: a stake to a delegate that is disabled or not registered is rejected
\* and no stake step is taken, while the verdict on every unstake and every
\* withdraw is the same whether the delegate is disabled or enabled, and an
\* unstake or withdraw against a disabled delegate leaves it disabled.
C24_DisabledPoolOnlyBlocksStake ==
    /\ [](\A c \in AccountIds, p \in PoolIds, a \in Amounts :
             delegation_pools[p].state # "ENABLED" =>
                /\ stake_err(c, p, a) # OK
                /\ p = default_delegation_pool => stake_err(c, default_delegation_pool, a) # OK)
    /\ [][\A c \in AccountIds, p \in PoolIds, a \in Amounts :
             delegation_pools[p].state # "ENABLED" =>
                /\ ~stake_to_specific_pool(c, p, a)
                /\ p = default_delegation_pool => ~stake(c, a)]_vars
    /\ [][\A p \in PoolIds : TogglePool(p) =>
             /\ \A c \in AccountIds, a \in Amounts, d \in Deposits :
                   /\ unstake_err(c, p, a, d, TRUE)' = unstake_err(c, p, a, d, TRUE)
                   /\ unstake_err(c, p, a, d, FALSE)' = unstake_err(c, p, a, d, FALSE)
             /\ \A c \in AccountIds, n \in 0..Len(unstake_requests) :
                   withdraw_err(c, n)' = withdraw_err(c, n)]_vars
    /\ [][\A p \in PoolIds : ~TogglePool(p) =>
             delegation_pools'[p].state = delegation_pools[p].state]_vars

\* with the default delegate disabled, alice's withdraw of request 1 and her
\* unstake of 1 are both accepted
C24_Witness ==
    /\ delegation_pools["pool1"].state = "DISABLED"
    /\ withdraw_err("alice", 1) = OK
    /\ unstake_err("alice", "pool1", 1, 1, TRUE) = OK
    /\ stake_err("alice", "pool1", 2) = ERR_POOL_NOT_ENABLED

\* the value sent to account r by the transfers ts
RECURSIVE PaidTo(_, _)
PaidTo(ts, r) ==
    IF ts = <<>> THEN 0
    ELSE (IF Head(ts).to = r THEN Head(ts).amount ELSE 0) + PaidTo(Tail(ts), r)

\* the shares owed to recipient r of distributor c net of the distribution fee
DistributableShares(c, r) ==
    LET rewards == internal_calculate_distribution_amount(allocations[<<c, r>>], share_price)
    IN  rewards - (rewards * distribution_fee) \div FEE_PRECISION

\* what recipient r of distributor c is owed, in value
DistributableNear(c, r) == convert_to_assets(DistributableShares(c, r), share_price, FALSE)

PaidToRecipients(ts, c) ==
    SumOver([r \in recipients_of(allocations, c) |-> PaidTo(ts, r)],
            recipients_of(allocations, c))

\* C25: a distribute_all of a caller who holds the shares and attaches the value
\* that get_rewards_distribution_amounts reports for all recipients pays every
\* recipient with a non-zero distributable amount, spends no more than the
\* reported value, and refunds the rest of the attached deposit.
C25_DistributeAllWithinReportedAmounts ==
    [][\A c \in Users, d \in Deposits :
         \A order \in Orders(recipients_of(allocations, c)) :
            /\ (/\ distribute_all(c, TRUE, d, order)
                /\ ft_balance_of(c) >= get_rewards_distribution_amounts(c, TRUE)[1]
                /\ d >= get_rewards_distribution_amounts(c, TRUE)[2])
               => /\ \A r \in recipients_of(allocations, c) :
                        DistributableNear(c, r) > 0
                           => PaidTo(transfers', r) = DistributableNear(c, r)
                  /\ PaidToRecipients(transfers', c)
                        <= get_rewards_distribution_amounts(c, TRUE)[2]
                  /\ PaidTo(transfers', c) = d - PaidToRecipients(transfers', c)
            /\ (/\ distribute_all(c, FALSE, d, order)
                /\ ft_balance_of(c) >= get_rewards_distribution_amounts(c, FALSE)[1])
               => /\ \A r \in recipients_of(allocations, c) :
                        DistributableShares(c, r) > 0
                           => accounts'[r] >= Max(accounts[r], 0) + DistributableShares(c, r)
                  /\ PaidTo(transfers', c) = d]_vars

\* a stored price <<num, denom>> as the ratio (num / SCALE) : denom, with
\* the common factor FEE_PRECISION of a global price taken out
StoredRatio(price) ==
    IF /\ (price[1] \div SHARE_PRICE_SCALING_FACTOR) % FEE_PRECISION = 0
       /\ price[2] % FEE_PRECISION = 0
    THEN <<(price[1] \div SHARE_PRICE_SCALING_FACTOR) \div FEE_PRECISION,
           price[2] \div FEE_PRECISION>>
    ELSE <<price[1] \div SHARE_PRICE_SCALING_FACTOR, price[2]>>

AllocationPrice(al) == StoredRatio(<<al.share_price_num, al.share_price_denom>>)

\* p < q for ratios
RatioLess(p, q) == p[1] * q[2] < q[1] * p[2]

\* allocator c tops the allocation to r up by a
TopUp(c, r, a) ==
    /\ has_allocation(allocations, c, r)
    /\ \E d \in Deposits : allocate_capped(c, r, a, d, MaxTopUp)

\* C26 as stated: a top-up at a price P2 above the recorded price P1 stores
\* the sum of the amounts and a price strictly between P1 and P2.
C26_MergedPriceStrictlyBetween ==
    [][\A c \in Users, r \in AccountIds, a \in Amounts :
         (TopUp(c, r, a) /\ RatioLess(AllocationPrice(allocations[<<c, r>>]),
                                      StoredRatio(share_price)))
         => /\ allocations'[<<c, r>>].near_amount = allocations[<<c, r>>].near_amount + a
            /\ RatioLess(AllocationPrice(allocations[<<c, r>>]),
                         AllocationPrice(allocations'[<<c, r>>]))
            /\ RatioLess(AllocationPrice(allocations'[<<c, r>>]),
                         StoredRatio(share_price))]_vars

\* C26, amended: a top-up at a price P2 above the recorded price P1 stores
\* the sum of the amounts and a price strictly above P1 that is never below
\* the exact money-weighted average (n1 + a) / (n1 / P1 + a / P2): the stored
\* denominator is at most the exact number of shares n1 / P1 + a / P2.
C26_MergedPriceAboveRecorded ==
    [][\A c \in Users, r \in AccountIds, a \in Amounts :
         (TopUp(c, r, a) /\ RatioLess(AllocationPrice(allocations[<<c, r>>]),
                                      StoredRatio(share_price)))
         => LET old == allocations[<<c, r>>]
                P1 == AllocationPrice(old)
                P2 == StoredRatio(share_price)
                new == allocations'[<<c, r>>]
            IN  /\ new.near_amount = old.near_amount + a
                /\ new.share_price_num = new.near_amount * SHARE_PRICE_SCALING_FACTOR
                /\ RatioLess(P1, AllocationPrice(new))
                /\ new.share_price_denom * P1[1] * P2[1]
                      <= old.near_amount * P1[2] * P2[1] + a * P2[2] * P1[1]]_vars

\* an allocation of 2 recorded at price 2 topped up by 2 at price 5/2: the
\* shares floor to 1 + 0, so the stored price is 4, above both prices
C26_Witness ==
    /\ allocations[<<"alice", "bob">>] =
          [near_amount |-> 4, share_price_num |-> 4 * SHARE_PRICE_SCALING_FACTOR,
           share_price_denom |-> 1]
    /\ StoredRatio(share_price) = <<5, 2>>

TotalUnstakedOnPools ==
    SumOver([p \in PoolIds |-> delegation_pools[p].total_unstaked], PoolIds)

OutstandingRequested ==
    SumOver([n \in DOMAIN unstake_requests |-> unstake_requests[n].near_amount],
            DOMAIN unstake_requests)

\* C27: whenever no settlement operation is in flight (and manual_unlock has
\* not been used), withdrawn_amount plus the total_unstaked of every delegate
\* equals the sum of the amounts of the outstanding unstake requests.
C27_UnstakedValueMatchesRequests ==
    (~is_locked /\ pending = <<>> /\ ~unlock_used)
    => withdrawn_amount + TotalUnstakedOnPools = OutstandingRequested

\* the first request is paid out, the second is outstanding, and value
\* withdrawn from the delegate still sits in withdrawn_amount
C27_Witness ==
    /\ ~is_locked /\ pending = <<>> /\ ~unlock_used
    /\ unstake_nonce = 2
    /\ unstake_requests[1] = NoRequest
    /\ unstake_requests[2] # NoRequest
    /\ withdrawn_amount > 0

TotalStakedOnPools ==
    SumOver([p \in PoolIds |-> delegation_pools[p].total_staked], PoolIds)

\* C28: once a refresh has succeeded, whenever no settlement operation is in
\* flight the vault's total_staked equals the sum of the delegates'
\* total_staked, after any sequence of stakes, unstakes (successful or
\* failed), withdrawals and refreshes.
C28_TotalStakedIsSumOfPools ==
    (~is_locked /\ pending = <<>> /\ ~unlock_used /\ total_staked_last_updated_at > 0)
    => total_staked = TotalStakedOnPools

\* the continuation of a stake with record c has minted the caller the shares
\* for the attached amount and refunded nothing
StakeMinted(c) ==
    /\ accounts'[c.caller]
          = Max(accounts[c.caller], 0) + convert_to_shares(c.amount, share_price, FALSE)
    /\ total_supply' = total_supply + convert_to_shares(c.amount, share_price, FALSE)
    /\ PaidTo(transfers', c.caller) = 0

\* the continuation of a stake with record c has refunded the attached amount
\* and minted nothing
StakeRefunded(c) ==
    /\ PaidTo(transfers', c.caller) = c.amount
    /\ transfers' # transfers
    /\ UNCHANGED tokenVars

\* C29: the continuation of every accepted stake either mints the caller the
\* shares for the attached amount or refunds the attached amount, and never
\* keeps the deposit without minting.
C29_StakeMintsOrRefunds ==
    [][\A k \in 1..Len(pending), r \in CallResults :
         (k \in PendingOf("stake") /\ finalize_deposit_and_stake(k, r))
         => (StakeMinted(pending[k]) \/ StakeRefunded(pending[k]))]_vars

\* what finalization will find in withdrawn_amount for request n: the value
\* already withdrawn plus the matured value the withdraw pulls from the delegate
AvailableFor(n) ==
    withdrawn_amount
    + (IF pool_has_withdrawable(unstake_requests[n].pool_id)
       THEN delegation_pools[unstake_requests[n].pool_id].total_unstaked ELSE 0)

\* C30: while manual_unlock has not been used, withdrawal finalization never
\* finds withdrawn_amount below the requested value: a withdraw of a matured
\* request by its owner that needs no delegate call, and the continuation of
\* one whose delegate call succeeded, pays the requested value plus the
\* storage refund and deletes the request.
C30_MaturedWithdrawPaysInFull ==
    /\ [](~unlock_used =>
            \A n \in DOMAIN unstake_requests :
               (~is_locked /\ pending = <<>> /\ request_exists(n)
                  /\ unstake_requests[n].epoch + NUM_EPOCHS_TO_UNLOCK <= epoch)
               => AvailableFor(n) >= unstake_requests[n].near_amount)
    /\ [][~unlock_used =>
            /\ \A c \in AccountIds, n \in DOMAIN unstake_requests :
                  (withdraw(c, n) /\ ~pool_has_withdrawable(unstake_requests[n].pool_id))
                  => PaysAndDeletes(n)
            /\ \A k \in 1..Len(pending), r \in RemoteBalances :
                  (k \in PendingOf("withdraw") /\ withdraw_callback(k, r))
                  => PaysAndDeletes(pending[k].unstake_nonce)]_vars

\* request 1 was paid from value pulled by the unstake that created request 2
C30_Witness ==
    /\ ~unlock_used /\ ~is_locked
    /\ unstake_nonce = 2
    /\ unstake_requests[1] = NoRequest
    /\ unstake_requests[2] # NoRequest
    /\ delegation_pools["pool1"].last_unstake = epoch
    /\ PaidTo(transfers, "alice") > StorageCost

\* the shares a stake of amount a mints at the price of the next state
SharesAtNextPrice(a) ==
    convert_to_shares(a, internal_share_price(total_staked', total_supply',
                                              tax_exempt_stake', fee'), FALSE)

\* an operation the lock does not guard runs
UnguardedStep ==
    \/ collect_fees
    \/ \E c \in Users, r \in AccountIds, n \in BOOLEAN, d \in Deposits :
          distribute_rewards(c, r, n, d)
    \/ \E c \in Users, n \in BOOLEAN, d \in Deposits :
          \E order \in Orders(recipients_of(allocations, c)) : distribute_all(c, n, d, order)
    \/ \E c \in Users, r \in AccountIds, a \in Amounts : ft_transfer(c, r, a)

\* C31: the continuation of a stake mints the round-down conversion of the
\* staked amount at the share price that held when the stake call was entered:
\* it mints the conversion at the price it reads, and no operation that runs
\* unguarded while the stake is in flight changes that conversion.
C31_StakeMintsAtEntryPrice ==
    /\ [][\A k \in 1..Len(pending), r \in CallResults :
             (/\ k \in PendingOf("stake")
              /\ finalize_deposit_and_stake(k, r)
              /\ finalize_deposit_and_stake_outcome(pending[k], r) = "mint")
             => total_supply' = total_supply
                                  + convert_to_shares(pending[k].amount, share_price, FALSE)]_vars
    /\ [][\A k \in 1..Len(pending) :
             (k \in PendingOf("stake") /\ UnguardedStep
                /\ ~convert_to_shares_panics(share_price))
             => SharesAtNextPrice(pending[k].amount)
                  = convert_to_shares(pending[k].amount, share_price, FALSE)]_vars

\* the share price read just before the unstake with continuation record c
\* was requested
PriceBeforeUnstake(c) ==
    internal_share_price(c.before.total_staked, c.before.total_supply,
                         c.before.tax_exempt_stake, fee)

\* C32: after the continuation of a successful unstake that leaves shares
\* outstanding, the share price is not lower than the share price read just
\* before the unstake was requested.
C32_UnstakeKeepsPrice ==
    [][\A k \in 1..Len(pending), r \in RemoteBalances :
         (/\ k \in PendingOf("unstake")
          /\ finalize_unstake(k, r)
          /\ finalize_unstake_outcome(pending[k], r) = "commit"
          /\ total_supply' > 0)
         => PriceLeq(PriceBeforeUnstake(pending[k]),
                     internal_share_price(total_staked', total_supply',
                                          tax_exempt_stake', fee'))]_vars

\* C33: the continuation of a refresh during which the owner added a delegate
\* clears the lock and either leaves the totals untouched or sets every
\* delegate's total_staked, their sum as total_staked, and the epoch stamp.
C33_RefreshCompletesAfterAddPool ==
    [][\A k \in 1..Len(pending), results \in RefreshAnswers :
         (/\ k \in PendingOf("refresh")
          /\ Len(delegation_pools_list) > pending[k].npromises
          /\ total_staked_callback(k, results))
         => /\ ~is_locked'
            /\ \/ UNCHANGED <<poolVars, stakeVars>>
               \/ /\ total_staked' = SumOver([p \in PoolIds |-> delegation_pools'[p].total_staked],
                                              PoolIds)
                  /\ total_staked_last_updated_at' = epoch]_vars

\* the delegate holds unstaked value whose waiting period has passed
MaturedOnDelegate(p) ==
    /\ delegation_pools[p].last_unstake # NoEpoch
    /\ delegation_pools[p].last_unstake + NUM_EPOCHS_TO_UNLOCK <= epoch
    /\ delegation_pools[p].total_unstaked > 0

\* C34: an accepted unstake on a delegate is preceded by a delegate-side
\* withdraw exactly when the delegate holds matured unstaked value; when the
\* delegate calls succeed after such a withdraw, withdrawn_amount grows by the
\* old total_unstaked and the delegate's total_unstaked becomes the new unstake
\* amount, and without such a withdraw total_unstaked grows by the new unstake
\* amount and withdrawn_amount is unchanged.
C34_WithdrawBeforeUnstake ==
    /\ [][(/\ Len(pending') > Len(pending)
           /\ pending'[Len(pending')].kind = "unstake")
          => pending'[Len(pending')].withdraw_occurred
               = MaturedOnDelegate(pending'[Len(pending')].pool_id)]_vars
    /\ [][\A k \in 1..Len(pending), r \in RemoteBalances :
             (k \in PendingOf("unstake") /\ finalize_unstake(k, r)) =>
                LET c == pending[k]
                    pool == delegation_pools[c.pool_id]
                IN  IF c.withdraw_occurred
                    THEN /\ withdrawn_amount' = withdrawn_amount + pool.total_unstaked
                         /\ delegation_pools'[c.pool_id].total_unstaked = c.amount
                    ELSE /\ withdrawn_amount' = withdrawn_amount
                         /\ delegation_pools'[c.pool_id].total_unstaked
                              = pool.total_unstaked + c.amount]_vars

\* the step is the continuation of a delegate-side withdraw on delegate p whose
\* delegate calls succeeded: a withdraw_callback, or a finalize_unstake whose
\* unstake was preceded by a withdraw
SuccessfulDelegateWithdraw(p) ==
    \E k \in 1..Len(pending), r \in RemoteBalances :
       /\ pending[k].pool_id = p
       /\ \/ k \in PendingOf("withdraw") /\ withdraw_callback(k, r)
          \/ /\ k \in PendingOf("unstake")
             /\ pending[k].withdraw_occurred
             /\ finalize_unstake(k, r)

\* C35: a delegate's total_unstaked decreases only in the continuation of a
\* successful delegate-side withdraw, and a delegate's last-unstake epoch
\* never moves to an earlier epoch.
C35_UnstakedDecreasesOnlyByWithdraw ==
    /\ [][\A p \in PoolIds :
             delegation_pools'[p].total_unstaked < delegation_pools[p].total_unstaked
                => SuccessfulDelegateWithdraw(p)]_vars
    /\ [][\A p \in PoolIds :
             delegation_pools'[p].last_unstake >= delegation_pools[p].last_unstake]_vars

\* the fee shares of the recipients paid by the loop of distribute_all, and the
\* recipients whose individual distribution failed
RECURSIVE LoopOutcome(_, _, _, _, _, _)
LoopOutcome(order, accs, allocs, distributor, in_near, refund_near_amount) ==
    IF order = <<>> THEN [fees |-> 0, rewards |-> 0, failed |-> {}]
    ELSE LET d == internal_distribute(accs, allocs, distributor, Head(order), share_price,
                                      in_near, refund_near_amount)
             rest == LoopOutcome(Tail(order), d.accs, d.allocs, distributor, in_near,
                                 d.refund_amount)
         IN  [fees |-> rest.fees + (IF d.status = "ok" THEN d.fees ELSE 0),
              rewards |-> rest.rewards + (IF d.status = "ok" /\ ~in_near /\ Head(order) = Treasury
                                          THEN d.shares_amount ELSE 0),
              failed |-> rest.failed \cup (IF d.status = "err" THEN {Head(order)} ELSE {})]

\* C36: a distribute_all leaves every recipient whose individual distribution
\* failed unchanged (balance and allocation), and the treasury receives fee
\* shares only for the recipients whose reward was paid.
C36_FailedRecipientPaysNoFee ==
    [][\A n \in BOOLEAN, d \in Deposits, order \in Orders(recipients_of(allocations, "alice")) :
         distribute_all("alice", n, d, order) =>
            LET out == LoopOutcome(order, accounts, allocations, "alice", n, d)
            IN  /\ accounts'[Treasury] = accounts[Treasury] + out.fees + out.rewards
                /\ \A r \in out.failed :
                      /\ allocations'[<<"alice", r>>] = allocations[<<"alice", r>>]
                      /\ r # Treasury => accounts'[r] = accounts[r]]_vars

\* the fee shares a collect_fees mints in a vault with the given totals
FeeSharesAt(staked, supply, exempt, f) ==
    convert_to_shares(mul_div_with_rounding(saturating_sub(staked, exempt), f,
                                            FEE_PRECISION, FALSE),
                      internal_share_price(staked, supply, exempt, f), FALSE)

\* C37: a collect_fees that mints shares gives them to the treasury, sets
\* tax_exempt_stake to total_staked and changes nothing else of the vault; one
\* that mints nothing changes nothing; and a collect_fees repeated right after
\* it would mint nothing.
C37_CollectFeesSettlesOnce ==
    [][collect_fees =>
        /\ IF total_supply' > total_supply
           THEN /\ tax_exempt_stake' = total_staked
                /\ accounts' = [accounts EXCEPT ![Treasury] =
                                   Max(@, 0) + total_supply' - total_supply]
                /\ total_supply' - total_supply = share_increase_treasury
           ELSE UNCHANGED <<tokenVars, tax_exempt_stake>>
        /\ UNCHANGED <<total_staked, total_staked_last_updated_at, epoch, is_locked, adminVars,
                       poolVars, requestVars, allocations, allocators, pending>>
        /\ FeeSharesAt(total_staked', total_supply', tax_exempt_stake', fee') = 0]_vars

\* fee shares have been minted to the treasury and the taxable stake is settled
C37_Witness ==
    /\ fee > 0
    /\ accounts[Treasury] > 0
    /\ tax_exempt_stake = total_staked
    /\ total_supply > accounts[Treasury]

\* the distributable shares of the allocation from alice to r at the current price
Distributable(r) ==
    internal_calculate_distribution_amount(allocations[<<"alice", r>>], share_price)

\* the token accounts after amount shares went from alice to account to,
\* registering it if needed
AfterMove(accs, to, amount) ==
    IF amount = 0 THEN accs
    ELSE [[accs EXCEPT !["alice"] = @ - amount] EXCEPT ![to] = Max(@, 0) + amount]

RatioEq(p, q) == p[1] * q[2] = q[1] * p[2]

\* the stored price of the allocation from alice to r equals the current price
AtCurrentPrice(r) ==
    RatioEq(AllocationPrice(allocations[<<"alice", r>>]), StoredRatio(share_price))

\* C39: a distribute_rewards for an allocation whose stored price equals the
\* current price as a ratio moves no shares and no value, charges no fee and
\* refunds the whole attached value; and after any distribute_rewards a second
\* one for the same pair would find nothing to distribute.
C39_DistributeAtCurrentPriceIsNoOp ==
    [][(pending' = pending /\ epoch' = epoch /\ distribution_fee' = distribution_fee) =>
       \A r \in Recipients, n \in BOOLEAN, d \in Deposits :
         distribute_rewards("alice", r, n, d) =>
            /\ AtCurrentPrice(r) =>
                  /\ UNCHANGED <<accounts, total_supply, allocations, allocators, stakeVars>>
                  /\ transfers' = Refund("alice", d)
            /\ \A n2 \in BOOLEAN :
                  internal_distribute(accounts', allocations', "alice", r,
                                      internal_share_price(total_staked', total_supply',
                                                           tax_exempt_stake', fee'),
                                      n2, d).status = "none"]_vars

\* nothing has been distributed to bob, whose allocation is at the current
\* price, and the whole attached value has just been refunded to alice
C39_Witness ==
    /\ has_allocation(allocations, "alice", "bob")
    /\ AtCurrentPrice("bob")
    /\ accounts["bob"] = Unregistered
    /\ total_staked > total_supply
    /\ transfers = <<[to |-> "alice", amount |-> 2]>>

\* C40: every stored allocation record has a recipient different from its
\* source and a near_amount of at least ONE_NEAR; a deallocate of the whole
\* amount deletes the record, and a partial deallocate lowers the amount and
\* leaves the stored price unchanged.
C40_AllocationRecordsWellFormed ==
    /\ [](\A pair \in DOMAIN allocations :
             allocations[pair] # NoAllocation =>
                /\ pair[1] # pair[2]
                /\ allocations[pair].near_amount >= ONE_NEAR)
    /\ [][\A a \in Amounts :
             deallocate("alice", "bob", a) =>
                LET old == allocations[<<"alice", "bob">>]
                    new == allocations'[<<"alice", "bob">>]
                IN  /\ \A pair \in DOMAIN allocations \ {<<"alice", "bob">>} :
                          allocations'[pair] = allocations[pair]
                    /\ IF a = old.near_amount
                       THEN new = NoAllocation
                       ELSE /\ new.near_amount = old.near_amount - a
                            /\ new.share_price_num = old.share_price_num
                            /\ new.share_price_denom = old.share_price_denom]_vars

\* a partial deallocate has left one base unit of a topped-up allocation whose
\* stored price is not the current price
C40_Witness ==
    /\ allocations[<<"alice", "bob">>].near_amount = ONE_NEAR
    /\ transfers = <<>>
    /\ pending = <<>>
    /\ RatioLess(AllocationPrice(allocations[<<"alice", "bob">>]), StoredRatio(share_price))
    /\ RatioLess(<<1, 1>>, AllocationPrice(allocations[<<"alice", "bob">>]))

====
